---------------------------- MODULE Spec2Model ----------------------------
(***************************************************************************)
(* A model of transcribe-yt: the chunked long-audio transcription of       *)
(* transcription.py, its sentence-aligned text chunker, the three          *)
(* summarization strategies of summarization.py, the link history of       *)
(* config.py, a whole run of the CLI and of the GUI, the configuration     *)
(* file and its writers, two concurrent history appends, and the threads   *)
(* of the GUI.                                                              *)
(*                                                                         *)
(* Text is a sequence of one-character strings; " " stands for any         *)
(* whitespace character and "." for any of the sentence punctuation        *)
(* characters [.!?].  Audio is a number of samples at the 16 kHz rate      *)
(* convert_to_wav asks ffmpeg for.                                          *)
(***************************************************************************)
EXTENDS Integers, Sequences, FiniteSets, TLC

VARIABLES
    \* ---- transcribe_audio / transcribe_audio_chunked (transcription.py)
    t_pc,              \* position inside transcribe_audio
    nemo_asr,          \* TRUE iff the nemo toolkit was importable
    audio_len,         \* len(audio): samples of the converted WAV
    chunk_duration,    \* seconds
    overlap_duration,  \* seconds
    start_sample,
    end_sample,
    chunk_num,
    transcriptions,    \* list of the stripped texts of the windows kept
    windows,           \* log: the (start, end) written to each chunk file
    outcomes,          \* log: what the ASR backend did on each window
    files,             \* the files that exist on disk
    asr_calls,         \* log: the path handed to each asr_model.transcribe
    transcription,     \* the text transcribe_audio writes
    \* ---- chunk_text as a function under test (transcription.py)
    c_pc,
    text,
    chunk_size,
    chunks,
    \* ---- generate_summary_* (summarization.py)
    s_pc,
    strategy,
    sentence_words,    \* the transcript: the word count of each sentence
    summary_chunk_size,
    use_ollama_formatting,
    text_chunks,       \* chunk_text's result: the sentences of each chunk
    chunk_index,       \* enumerate(chunks, 1)
    chunk_summaries,
    requests_log,      \* log: what each summary request carried
    final_summary,
    unformatted,       \* log: the summary handed to the formatting pass
    format_outcome,    \* log: what the formatting request did
    error,             \* the exception a raised call ended with
    md_file,           \* content of the .md file, None while not written
    \* ---- the link history of the configuration file (config.py)
    h_pc,
    link_history,      \* config["link_history"] as persisted
    next_id,           \* the uuid4 the next history entry gets
    h_before,          \* log: link_history before the last call
    h_last,            \* log: the last call and its argument
    removes,           \* log: the number of remove_link_from_history calls
    \* ---- a run of main / TranscribeYTGUI.transcribe_video
    p_pc,              \* position inside the run
    frontend,          \* "cli" (transcribe_yt.main) or "gui" (transcribe_video)
    force_transcribe,
    model,             \* the summary model selected
    deepseek_api_key,  \* TRUE iff config["deepseek_api_key"] is set
    ffmpeg,            \* TRUE iff "ffmpeg -version" runs
    mp3_path,
    srt_path,
    txt_path,
    md_path,
    trace,             \* log: the calls the run has made, in order
    exit_status,       \* the status sys.exit was called with, None if not
    error_reports,     \* log: the errors shown to the user (print, dialog)
    \* ---- the configuration file and its users (config.py, main, the GUI)
    k_pc,
    config_file,       \* ~/.transcribe-yt/config.json: absent, JSON or garbage
    k_config,          \* the mapping handed to save_config
    k_saved,           \* log: TRUE iff the save_config before the load returned
    k_loaded,          \* what load_config returned, None before
    gui_config,        \* self.config of the GUI, None while the GUI is not up
    k_before,          \* log: the configuration persisted before the last operation
    k_op,              \* log: the last operation and the keys it is to write
    k_count,           \* the operations done so far
    \* ---- the GUI threads (transcribe_yt_gui.py)
    g_pc,
    url_text,          \* the text of url_entry
    button_sensitive,  \* transcribe_button.get_sensitive()
    worker_pc,         \* position of each worker thread inside transcribe_video
    idle_queue,        \* the callbacks queued with GLib.idle_add, oldest first
    widget_log,        \* log: each widget access and the thread that made it
    runs_started,      \* the threads started so far
    \* ---- two concurrent save_link_to_history calls (config.py)
    r_pc,              \* position of each call
    r_config,          \* the config each call loaded
    r_entry,           \* the history entry of each call
    r_order            \* log: the loads and saves in the order they happened

tvars == <<t_pc, nemo_asr, audio_len, chunk_duration, overlap_duration,
           start_sample, end_sample, chunk_num, transcriptions, windows,
           outcomes, files, asr_calls, transcription>>
cvars == <<c_pc, text, chunk_size, chunks>>
svars == <<s_pc, strategy, sentence_words, summary_chunk_size,
           use_ollama_formatting, text_chunks, chunk_index, chunk_summaries,
           requests_log, final_summary, unformatted, format_outcome, error,
           md_file>>
hvars == <<h_pc, link_history, next_id, h_before, h_last, removes>>
pvars == <<p_pc, frontend, force_transcribe, model, deepseek_api_key, ffmpeg,
           mp3_path, srt_path, txt_path, md_path, trace, exit_status,
           error_reports>>
kvars == <<k_pc, config_file, k_config, k_saved, k_loaded, gui_config,
           k_before, k_op, k_count>>
gvars == <<g_pc, url_text, button_sensitive, worker_pc, idle_queue, widget_log,
           runs_started>>
rvars == <<r_pc, r_config, r_entry, r_order>>
xvars == <<kvars, gvars, rvars>>
vars == <<tvars, cvars, svars, hvars, pvars, xvars>>

(***************************************************************************)
(* Bounds of the model.                                                    *)
(***************************************************************************)
MaxDuration == 4       \* longest asset, in whole seconds
MaxChunkDuration == 3  \* largest chunk_duration, in seconds
MaxTextLen == 9        \* longest input text of chunk_text, in characters
MaxChunkSize == 2      \* largest chunk_size handed to chunk_text
MaxSentences == 3      \* most sentences of a small transcript
MaxSentenceWords == 2  \* most words of a sentence of a small transcript
MaxStalledWindows == 2 \* most windows explored beyond one per second of asset

\* Python's None, and a value that is not None.
None == <<>>
Some(x) == <<x>>

Min(a, b) == IF a < b THEN a ELSE b

(***************************************************************************)
(* Strings: str.strip, str.split, str.join, re.split.                      *)
(***************************************************************************)
Space == " "
Punct == "."

\* str.strip(): drop the leading and the trailing whitespace.
RECURSIVE LStrip(_)
LStrip(s) ==
    IF s # <<>> /\ Head(s) = Space THEN LStrip(Tail(s)) ELSE s

RECURSIVE RStrip(_)
RStrip(s) ==
    IF s # <<>> /\ s[Len(s)] = Space THEN RStrip(SubSeq(s, 1, Len(s) - 1)) ELSE s

strip(s) == RStrip(LStrip(s))

\* sep.join(parts)
RECURSIVE join(_, _)
join(sep, parts) ==
    IF parts = <<>> THEN <<>>
    ELSE IF Len(parts) = 1 THEN parts[1]
    ELSE parts[1] \o sep \o join(sep, Tail(parts))

\* len(s.split()): the number of maximal runs of non-whitespace characters.
RECURSIVE WordCountFrom(_, _)
WordCountFrom(s, i) ==
    IF i > Len(s) THEN 0
    ELSE (IF s[i] # Space /\ (i = 1 \/ s[i - 1] = Space) THEN 1 ELSE 0)
         + WordCountFrom(s, i + 1)

WordCount(s) == WordCountFrom(s, 1)

\* The first index >= i of s that holds no whitespace (Len(s) + 1 if none).
RECURSIVE SkipSpaces(_, _)
SkipSpaces(s, i) ==
    IF i <= Len(s) /\ s[i] = Space THEN SkipSpaces(s, i + 1) ELSE i

\* re.split(r'(?<=[.!?])\s+', s) from index i on, cur being the piece read so
\* far: a run of whitespace right after a punctuation character ends a piece
\* and is dropped; the last piece is returned even when it is empty.
RECURSIVE ReSplitFrom(_, _, _)
ReSplitFrom(s, i, cur) ==
    IF i > Len(s) THEN <<cur>>
    ELSE IF s[i] = Space /\ i > 1 /\ s[i - 1] = Punct
         THEN <<cur>> \o ReSplitFrom(s, SkipSpaces(s, i), <<>>)
         ELSE ReSplitFrom(s, i + 1, Append(cur, s[i]))

re_split(s) == ReSplitFrom(s, 1, <<>>)

(***************************************************************************)
(* chunk_text (transcription.py).                                          *)
(***************************************************************************)

\* One pass of the loop "for sentence in sentences", from sentence i on.
\* words[i] is sentence_words of sentence i; a chunk under construction is the
\* list of the indices of its sentences.  Returns the list of the chunks.
RECURSIVE ChunkLoop(_, _, _, _, _, _)
ChunkLoop(words, size, i, done, current_chunk, current_word_count) ==
    IF i > Len(words)
    THEN IF current_chunk # <<>> THEN Append(done, current_chunk) ELSE done
    ELSE IF current_word_count + words[i] > size /\ current_chunk # <<>>
         THEN ChunkLoop(words, size, i + 1, Append(done, current_chunk),
                        <<i>>, words[i])
         ELSE ChunkLoop(words, size, i + 1, done,
                        Append(current_chunk, i), current_word_count + words[i])

\* A mutant of the loop: the sentence that closes a chunk is dropped.
RECURSIVE ChunkLoopDropping(_, _, _, _, _, _)
ChunkLoopDropping(words, size, i, done, current_chunk, current_word_count) ==
    IF i > Len(words)
    THEN IF current_chunk # <<>> THEN Append(done, current_chunk) ELSE done
    ELSE IF current_word_count + words[i] > size /\ current_chunk # <<>>
         THEN ChunkLoopDropping(words, size, i + 1, Append(done, current_chunk),
                                <<>>, 0)
         ELSE ChunkLoopDropping(words, size, i + 1, done,
                                Append(current_chunk, i),
                                current_word_count + words[i])

ChunkGroupsDropping(words, size) ==
    ChunkLoopDropping(words, size, 1, <<>>, <<>>, 0)

\* A mutant of the loop: a chunk is closed as soon as it would be full.
RECURSIVE ChunkLoopEager(_, _, _, _, _, _)
ChunkLoopEager(words, size, i, done, current_chunk, current_word_count) ==
    IF i > Len(words)
    THEN IF current_chunk # <<>> THEN Append(done, current_chunk) ELSE done
    ELSE IF current_word_count + words[i] >= size /\ current_chunk # <<>>
         THEN ChunkLoopEager(words, size, i + 1, Append(done, current_chunk),
                             <<i>>, words[i])
         ELSE ChunkLoopEager(words, size, i + 1, done,
                             Append(current_chunk, i),
                             current_word_count + words[i])

ChunkGroupsEager(words, size) == ChunkLoopEager(words, size, 1, <<>>, <<>>, 0)

\* A mutant of the loop: the word count is not reset when a chunk is closed.
RECURSIVE ChunkLoopNoReset(_, _, _, _, _, _)
ChunkLoopNoReset(words, size, i, done, current_chunk, current_word_count) ==
    IF i > Len(words)
    THEN IF current_chunk # <<>> THEN Append(done, current_chunk) ELSE done
    ELSE IF current_word_count + words[i] > size /\ current_chunk # <<>>
         THEN ChunkLoopNoReset(words, size, i + 1, Append(done, current_chunk),
                               <<i>>, current_word_count + words[i])
         ELSE ChunkLoopNoReset(words, size, i + 1, done,
                               Append(current_chunk, i),
                               current_word_count + words[i])

ChunkGroupsNoReset(words, size) ==
    ChunkLoopNoReset(words, size, 1, <<>>, <<>>, 0)

\* The grouping chunk_text makes of sentences with these word counts.
ChunkGroups(words, size) == ChunkLoop(words, size, 1, <<>>, <<>>, 0)

\* chunk_text(text, chunk_size): the list of chunk strings.
chunk_text(txt, size) ==
    LET sentences == re_split(txt)
        words == [i \in DOMAIN sentences |-> WordCount(sentences[i])]
        groups == ChunkGroups(words, size)
    IN [g \in DOMAIN groups |->
           join(<<Space>>, [j \in DOMAIN groups[g] |-> sentences[groups[g][j]]])]

(***************************************************************************)
(* transcribe_audio and transcribe_audio_chunked (transcription.py).        *)
(***************************************************************************)

\* ffmpeg -ar 16000: the sample rate sr of the converted WAV.
SampleRate == 16000

\* The end-to-end scenarios A and B of the specification (seconds).
ScenarioA == [D |-> 45, C |-> 300, O |-> 30]
ScenarioB == [D |-> 700, C |-> 300, O |-> 30]

\* The files of a run.
Mp3File == [kind |-> "mp3", n |-> 0]
WavFile == [kind |-> "wav", n |-> 0]
TxtFile == [kind |-> "txt", n |-> 0]
\* chunk_path = f"{wav_path}_chunk_{chunk_num}.wav"
ChunkFile(k) == [kind |-> "chunk", n |-> k]

\* What asr_model.transcribe does on one window: returns a text, a text with
\* whitespace around it, a text of whitespace only, no output, or raises.
AsrOutcomes == {"text", "padded", "blank", "none", "raise"}

\* output[0].text for window k; the word spoken in window k is its number.
AsrText(outcome, k) ==
    CASE outcome = "text"   -> <<ToString(k)>>
      [] outcome = "padded" -> <<Space, ToString(k), Space>>
      [] outcome = "blank"  -> <<Space>>
      [] OTHER              -> <<>>

\* Lengths in samples.
chunk_samples == chunk_duration * SampleRate
overlap_samples == overlap_duration * SampleRate

\* The mutant of UseChunked: an asset of exactly chunk_duration is chunked.
UseChunkedAtEqual(len, cd) == len >= cd * SampleRate

\* "if duration > chunk_duration" with duration = len(audio) / sr.
UseChunked(len, cd) == len > cd * SampleRate

\* end_sample = min(start_sample + chunk_samples, len(audio))
WindowEnd(start, csamples, len) == Min(start + csamples, len)

\* The mutant of NextStart: the next window starts where this one ends.
NextStartNoOverlap(end, osamples) == end

\* start_sample = end_sample - overlap_samples
NextStart(end, osamples) == end - osamples

\* "if start_sample >= len(audio) - overlap_samples: break"
LoopBreaks(start, len, osamples) == start >= len - osamples

\* The mutant of KeepChunk: the text is kept as the backend gave it.
KeepChunkUnstripped(kept, outcome, k) ==
    IF outcome \in {"text", "padded", "blank"}
    THEN Append(kept, AsrText(outcome, k))
    ELSE kept

\* The body of the try of one iteration: the list transcriptions after the
\* backend answered with outcome on window k.
KeepChunk(kept, outcome, k) ==
    IF outcome \in {"text", "padded", "blank"} /\ strip(AsrText(outcome, k)) # <<>>
    THEN Append(kept, strip(AsrText(outcome, k)))
    ELSE kept

\* A variant of RemoveChunkFile that removes the file in the try block, so
\* that a raising backend leaves it behind.
RemoveChunkFileOnSuccess(fs, outcome, k) ==
    IF outcome = "raise" THEN fs ELSE fs \ {ChunkFile(k)}

\* "finally: if os.path.exists(chunk_path): os.remove(chunk_path)": the files
\* after window k was processed with outcome.
RemoveChunkFile(fs, outcome, k) == fs \ {ChunkFile(k)}

\* The inputs: (asset length in samples, chunk_duration, overlap_duration).
TranscribeInputs ==
    {<<d * SampleRate + f, c, o>> :
        d \in 0..MaxDuration, f \in {0, SampleRate \div 2},
        c \in 1..MaxChunkDuration, o \in 0..(MaxChunkDuration - 1)}
    \cup {<<ScenarioA.D * SampleRate, ScenarioA.C, ScenarioA.O>>,
          <<ScenarioB.D * SampleRate, ScenarioB.C, ScenarioB.O>>}

TInit ==
    /\ t_pc = "start"
    /\ nemo_asr \in BOOLEAN
    /\ \E in \in TranscribeInputs :
          /\ in[1] > 0
          /\ in[3] < in[2]
          /\ audio_len = in[1]
          /\ chunk_duration = in[2]
          /\ overlap_duration = in[3]
    /\ start_sample = 0
    /\ end_sample = 0
    /\ chunk_num = 0
    /\ transcriptions = <<>>
    /\ windows = <<>>
    /\ outcomes = <<>>
    /\ files = {Mp3File}
    /\ asr_calls = <<>>
    /\ transcription = None

TIdle ==
    /\ t_pc = "idle"
    /\ nemo_asr = FALSE
    /\ audio_len = 0
    /\ chunk_duration = 0
    /\ overlap_duration = 0
    /\ start_sample = 0
    /\ end_sample = 0
    /\ chunk_num = 0
    /\ transcriptions = <<>>
    /\ windows = <<>>
    /\ outcomes = <<>>
    /\ files = {}
    /\ asr_calls = <<>>
    /\ transcription = None

\* transcribe_audio, lines 58-59: without the toolkit nothing is started.
CheckBackend ==
    /\ t_pc = "start"
    /\ t_pc' = IF nemo_asr THEN "convert" ELSE "raised"
    /\ UNCHANGED <<nemo_asr, audio_len, chunk_duration, overlap_duration,
                   start_sample, end_sample, chunk_num, transcriptions,
                   windows, outcomes, files, asr_calls, transcription>>
    /\ UNCHANGED <<cvars, svars, hvars, pvars, xvars>>

\* convert_to_wav: ffmpeg writes the WAV, or fails.
ConvertToWav ==
    /\ t_pc = "convert"
    /\ \E ok \in BOOLEAN :
          IF ok
          THEN /\ files' = files \cup {WavFile}
               /\ t_pc' = "load"
          ELSE /\ files' = files
               /\ t_pc' = "raised"
    /\ UNCHANGED <<nemo_asr, audio_len, chunk_duration, overlap_duration,
                   start_sample, end_sample, chunk_num, transcriptions,
                   windows, outcomes, asr_calls, transcription>>
    /\ UNCHANGED <<cvars, svars, hvars, pvars, xvars>>

\* librosa.get_duration and ASRModel.from_pretrained, then the decision
\* between the chunked and the single pass; a failure to load raises.
LoadAndDecide ==
    /\ t_pc = "load"
    /\ \E ok \in BOOLEAN :
          t_pc' = IF ~ok THEN "raised"
                  ELSE IF UseChunked(audio_len, chunk_duration) THEN "chunk_write"
                  ELSE "single"
    /\ UNCHANGED <<nemo_asr, audio_len, chunk_duration, overlap_duration,
                   start_sample, end_sample, chunk_num, transcriptions,
                   windows, outcomes, files, asr_calls, transcription>>
    /\ UNCHANGED <<cvars, svars, hvars, pvars, xvars>>

\* A variant of single_pass that takes no output for an empty text.
single_pass_lenient(outcome) ==
    [raised |-> FALSE, value |-> Some(AsrText(outcome, 0))]

\* "if output and len(output) > 0: transcription = output[0].text" and
\* "else: raise RuntimeError(...)" of the single pass.
single_pass(outcome) ==
    IF outcome = "none"
    THEN [raised |-> TRUE, value |-> None]
    ELSE [raised |-> FALSE, value |-> Some(AsrText(outcome, 0))]

\* The single pass: one call on the whole WAV; no output is fatal.
SinglePass ==
    /\ t_pc = "single"
    /\ asr_calls' = Append(asr_calls, WavFile)
    /\ \E outcome \in {"text", "padded", "blank", "none"} :
          /\ outcomes' = Append(outcomes, outcome)
          /\ IF single_pass(outcome).raised
             THEN /\ t_pc' = "raised"
                  /\ transcription' = transcription
             ELSE /\ t_pc' = "write"
                  /\ transcription' = single_pass(outcome).value
    /\ UNCHANGED <<nemo_asr, audio_len, chunk_duration, overlap_duration,
                   start_sample, end_sample, chunk_num, transcriptions,
                   windows, files>>
    /\ UNCHANGED <<cvars, svars, hvars, pvars, xvars>>

\* The windows explored: a loop that advances by a second or more per window
\* writes at most one window per second of asset, and a loop that does not
\* advance is followed for MaxStalledWindows windows more.
WindowCap(len) == len \div SampleRate + MaxStalledWindows

\* The head of "while start_sample < len(audio)" and sf.write of the window.
WriteChunk ==
    /\ t_pc = "chunk_write"
    /\ chunk_num <= WindowCap(audio_len)
    /\ IF start_sample < audio_len
       THEN /\ end_sample' = WindowEnd(start_sample, chunk_samples, audio_len)
            /\ windows' = Append(windows, <<start_sample, end_sample'>>)
            /\ files' = files \cup {ChunkFile(chunk_num)}
            /\ t_pc' = "chunk_asr"
       ELSE /\ t_pc' = "join"
            /\ UNCHANGED <<end_sample, windows, files>>
    /\ UNCHANGED <<nemo_asr, audio_len, chunk_duration, overlap_duration,
                   start_sample, chunk_num, transcriptions, outcomes,
                   asr_calls, transcription>>
    /\ UNCHANGED <<cvars, svars, hvars, pvars, xvars>>

\* try/except/finally of one window, then the move to the next window and
\* the break.
TranscribeChunk ==
    /\ t_pc = "chunk_asr"
    /\ \E outcome \in AsrOutcomes :
          /\ outcomes' = Append(outcomes, outcome)
          /\ transcriptions' = KeepChunk(transcriptions, outcome, chunk_num)
          /\ files' = RemoveChunkFile(files, outcome, chunk_num)
    /\ asr_calls' = Append(asr_calls, ChunkFile(chunk_num))
    /\ start_sample' = NextStart(end_sample, overlap_samples)
    /\ chunk_num' = chunk_num + 1
    /\ t_pc' = IF LoopBreaks(start_sample', audio_len, overlap_samples)
               THEN "join" ELSE "chunk_write"
    /\ UNCHANGED <<nemo_asr, audio_len, chunk_duration, overlap_duration,
                   end_sample, windows, transcription>>
    /\ UNCHANGED <<cvars, svars, hvars, pvars, xvars>>

\* full_transcription = " ".join(transcriptions), returned to transcribe_audio.
JoinChunks ==
    /\ t_pc = "join"
    /\ transcription' = Some(join(<<Space>>, transcriptions))
    /\ t_pc' = "write"
    /\ UNCHANGED <<nemo_asr, audio_len, chunk_duration, overlap_duration,
                   start_sample, end_sample, chunk_num, transcriptions,
                   windows, outcomes, files, asr_calls>>
    /\ UNCHANGED <<cvars, svars, hvars, pvars, xvars>>

\* open(txt_path, 'w') and f.write(transcription); an I/O error raises.
WriteTranscript ==
    /\ t_pc = "write"
    /\ \E ok \in BOOLEAN :
          IF ok
          THEN /\ files' = files \cup {TxtFile}
               /\ t_pc' = "cleanup"
          ELSE /\ files' = files
               /\ t_pc' = "raised"
    /\ UNCHANGED <<nemo_asr, audio_len, chunk_duration, overlap_duration,
                   start_sample, end_sample, chunk_num, transcriptions,
                   windows, outcomes, asr_calls, transcription>>
    /\ UNCHANGED <<cvars, svars, hvars, pvars, xvars>>

\* os.remove(wav_path) and return str(txt_path).
RemoveWav ==
    /\ t_pc = "cleanup"
    /\ files' = files \ {WavFile}
    /\ t_pc' = "done"
    /\ UNCHANGED <<nemo_asr, audio_len, chunk_duration, overlap_duration,
                   start_sample, end_sample, chunk_num, transcriptions,
                   windows, outcomes, asr_calls, transcription>>
    /\ UNCHANGED <<cvars, svars, hvars, pvars, xvars>>

TNext ==
    \/ CheckBackend
    \/ ConvertToWav
    \/ LoadAndDecide
    \/ SinglePass
    \/ WriteChunk
    \/ TranscribeChunk
    \/ JoinChunks
    \/ WriteTranscript
    \/ RemoveWav

(***************************************************************************)
(* chunk_text as a function under test: any short text, any chunk_size.    *)
(***************************************************************************)
Alphabet == {"a", Punct, Space}

\* Every text of at most MaxTextLen characters.
Texts == UNION {[1..n -> Alphabet] : n \in 0..MaxTextLen}

CInit ==
    /\ c_pc = "input"
    /\ text \in Texts
    /\ chunk_size \in 1..MaxChunkSize
    /\ chunks = <<>>

CIdle ==
    /\ c_pc = "idle"
    /\ text = <<>>
    /\ chunk_size = 0
    /\ chunks = <<>>

\* chunks = chunk_text(text, chunk_size)
ChunkTextCall ==
    /\ c_pc = "input"
    /\ chunks' = chunk_text(text, chunk_size)
    /\ c_pc' = "returned"
    /\ UNCHANGED <<text, chunk_size>>
    /\ UNCHANGED <<tvars, svars, hvars, pvars, xvars>>

CNext == ChunkTextCall

(***************************************************************************)
(* The summarization strategies (summarization.py).  The transcript is     *)
(* held as the word counts of its sentences, which is all chunk_text reads *)
(* of it; a text chunk is the list of the indices of its sentences.        *)
(***************************************************************************)
Strategies == {"deepseek", "ollama", "extractive"}

\* The end-to-end scenario C of the specification.
ScenarioC == [words |-> 2500, chunk_size |-> 1000]

\* Sentence lengths of the transcripts of scenario C.
ScenarioSentenceWords == {50, 100, 130, 250, 300, 600, 2500}

RECURSIVE SumSeq(_)
SumSeq(q) == IF q = <<>> THEN 0 ELSE Head(q) + SumSeq(Tail(q))

\* A transcript of n words whose sentences have a, b, a, b, ... words, the
\* last one cut to what is left.
Fill(a, b, n) ==
    LET pairs == n \div (a + b)
        rest == n % (a + b)
        extra == IF rest = 0 THEN 0 ELSE IF rest <= a THEN 1 ELSE 2
    IN [i \in 1..(2 * pairs + extra) |->
           IF i <= 2 * pairs THEN (IF i % 2 = 1 THEN a ELSE b)
           ELSE IF i = 2 * pairs + 1 THEN Min(a, rest)
           ELSE rest - a]

ScenarioTranscripts ==
    {Fill(a, b, ScenarioC.words) : a, b \in ScenarioSentenceWords}

SmallTranscripts ==
    UNION {[1..n -> 1..MaxSentenceWords] : n \in 1..MaxSentences}

\* (transcript, chunk_size) of a call.
SummaryInputs ==
    (SmallTranscripts
        \X ({None} \cup {Some(n) : n \in 0..MaxChunkSize}))
    \cup (ScenarioTranscripts \X {Some(ScenarioC.chunk_size)})

\* What one HTTP request of a summary does: a response with the text, a
\* transport error, an HTTP error status, or a response without the text.
RequestOutcomes == {"ok", "transport", "http", "no_text"}

\* What the formatting request does; "bad_shape" is a response that is not
\* the JSON object expected (result.get fails).
FormatOutcomes == {"ok_text", "ok_empty", "transport", "http", "bad_shape"}

\* Summaries.  sections: the "## Chunk i Summary" blocks; body: the number of
\* sentences an extractive summary selected.
ChunkedSummary(sections) ==
    [kind |-> "chunked", heading |-> TRUE, sections |-> sections,
     via |-> "", body |-> <<>>]
WholeSummary(content) ==
    [kind |-> "whole", heading |-> FALSE, sections |-> <<>>,
     via |-> content, body |-> <<>>]
ExtractiveSummary(via, selected) ==
    [kind |-> "extractive", heading |-> TRUE, sections |-> <<>>,
     via |-> via, body |-> selected]
FormatterText ==
    [kind |-> "formatted", heading |-> FALSE, sections |-> <<>>,
     via |-> "", body |-> <<>>]

\* f"## Chunk {i} Summary\n\n{chunk_summary}\n"
Section(i, content, chunk) == [n |-> i, content |-> content, of |-> chunk]
ErrorPlaceholder == "*Error processing this chunk*"

\* "if chunk_size and chunk_size > 0"
ChunkingOn(size) == size # None /\ size[1] # 0 /\ size[1] > 0

\* The body of "for i, chunk in enumerate(chunks, 1)" of
\* generate_summary_deepseek: the list chunk_summaries after the request for
\* chunk i, or the exception that leaves the loop.
DeepseekChunk(summaries, i, chunk, outcome) ==
    CASE outcome = "ok" ->
            [raised |-> FALSE, value |-> Append(summaries, Section(i, "summary", chunk))]
      [] outcome \in {"transport", "http"} ->
            [raised |-> FALSE, value |-> Append(summaries, Section(i, ErrorPlaceholder, chunk))]
      [] OTHER ->
            \* response.json()["choices"][0]["message"]["content"]: KeyError
            [raised |-> TRUE, value |-> summaries]

\* The same loop body in generate_summary_ollama.
OllamaChunk(summaries, i, chunk, outcome) ==
    CASE outcome = "ok" ->
            [raised |-> FALSE, value |-> Append(summaries, Section(i, "summary", chunk))]
      [] outcome \in {"transport", "http"} ->
            [raised |-> FALSE, value |-> Append(summaries, Section(i, ErrorPlaceholder, chunk))]
      [] OTHER ->
            \* result.get("message", {}).get("content", "") is ""
            [raised |-> FALSE, value |-> Append(summaries, Section(i, "", chunk))]

\* apply_ollama_formatting(summary_text, model)
apply_ollama_formatting(summary_text, outcome) ==
    CASE outcome = "ok_text" -> [raised |-> FALSE, value |-> FormatterText]
      [] outcome = "ok_empty" -> [raised |-> FALSE, value |-> summary_text]
      [] outcome \in {"transport", "http"} -> [raised |-> FALSE, value |-> summary_text]
      [] OTHER -> [raised |-> TRUE, value |-> summary_text]

\* The mutant of apply_ollama_formatting_if_enabled: no try around the call.
apply_ollama_formatting_unguarded(summary_text, use, outcome) ==
    IF use THEN apply_ollama_formatting(summary_text, outcome)
    ELSE [raised |-> FALSE, value |-> summary_text]

\* apply_ollama_formatting_if_enabled(summary_text, use_ollama_formatting, model)
apply_ollama_formatting_if_enabled(summary_text, use, outcome) ==
    IF use
    THEN LET r == apply_ollama_formatting(summary_text, outcome)
         IN IF r.raised THEN [raised |-> FALSE, value |-> summary_text]
            ELSE [raised |-> FALSE, value |-> r.value]
    ELSE [raised |-> FALSE, value |-> summary_text]

SInit ==
    /\ s_pc = "start"
    /\ strategy \in Strategies
    /\ \E in \in SummaryInputs :
          /\ sentence_words = in[1]
          /\ summary_chunk_size = in[2]
    /\ use_ollama_formatting \in BOOLEAN
    /\ text_chunks = <<>>
    /\ chunk_index = 0
    /\ chunk_summaries = <<>>
    /\ requests_log = <<>>
    /\ final_summary = None
    /\ unformatted = None
    /\ format_outcome = "none"
    /\ error = "none"
    /\ md_file = None

SIdle ==
    /\ s_pc = "idle"
    /\ strategy = "none"
    /\ sentence_words = <<>>
    /\ summary_chunk_size = None
    /\ use_ollama_formatting = FALSE
    /\ text_chunks = <<>>
    /\ chunk_index = 0
    /\ chunk_summaries = <<>>
    /\ requests_log = <<>>
    /\ final_summary = None
    /\ unformatted = None
    /\ format_outcome = "none"
    /\ error = "none"
    /\ md_file = None

\* generate_summary_deepseek / generate_summary_ollama up to the choice
\* between the chunked and the one-pass summary; chunks = chunk_text(...).
StartLlmSummary ==
    /\ s_pc = "start"
    /\ strategy \in {"deepseek", "ollama"}
    /\ IF ChunkingOn(summary_chunk_size)
       THEN /\ text_chunks' = ChunkGroups(sentence_words, summary_chunk_size[1])
            /\ chunk_index' = 1
            /\ s_pc' = "chunk_loop"
       ELSE /\ s_pc' = "whole"
            /\ UNCHANGED <<text_chunks, chunk_index>>
    /\ UNCHANGED <<strategy, sentence_words, summary_chunk_size,
                   use_ollama_formatting, chunk_summaries, requests_log,
                   final_summary, unformatted, format_outcome, error, md_file>>
    /\ UNCHANGED <<tvars, cvars, hvars, pvars, xvars>>

\* One iteration of the loop over the chunks: the request for chunk i.
SummarizeChunk ==
    /\ s_pc = "chunk_loop"
    /\ chunk_index <= Len(text_chunks)
    /\ \E outcome \in RequestOutcomes :
          /\ requests_log' = Append(requests_log,
                [content |-> text_chunks[chunk_index], outcome |-> outcome])
          /\ LET r == IF strategy = "deepseek"
                      THEN DeepseekChunk(chunk_summaries, chunk_index,
                                         text_chunks[chunk_index], outcome)
                      ELSE OllamaChunk(chunk_summaries, chunk_index,
                                       text_chunks[chunk_index], outcome)
             IN IF r.raised
                THEN /\ s_pc' = "raised"
                     /\ error' = "KeyError"
                     /\ UNCHANGED <<chunk_summaries, chunk_index>>
                ELSE /\ chunk_summaries' = r.value
                     /\ chunk_index' = chunk_index + 1
                     /\ UNCHANGED <<s_pc, error>>
    /\ UNCHANGED <<strategy, sentence_words, summary_chunk_size,
                   use_ollama_formatting, text_chunks, final_summary,
                   unformatted, format_outcome, md_file>>
    /\ UNCHANGED <<tvars, cvars, hvars, pvars, xvars>>

\* final_summary = "# Detailed Summary\n\n" + "\n".join(chunk_summaries),
\* written to the .md file.
WriteChunkedSummary ==
    /\ s_pc = "chunk_loop"
    /\ chunk_index > Len(text_chunks)
    /\ final_summary' = Some(ChunkedSummary(chunk_summaries))
    /\ md_file' = final_summary'
    /\ s_pc' = "written"
    /\ UNCHANGED <<strategy, sentence_words, summary_chunk_size,
                   use_ollama_formatting, text_chunks, chunk_index,
                   chunk_summaries, requests_log, unformatted,
                   format_outcome, error>>
    /\ UNCHANGED <<tvars, cvars, hvars, pvars, xvars>>

\* The one-pass summary of the two LLM strategies: one request on the whole
\* transcript, and the .md file.
SummarizeWhole ==
    /\ s_pc = "whole"
    /\ \E outcome \in RequestOutcomes :
       /\ requests_log' = Append(requests_log,
             [content |-> [i \in DOMAIN sentence_words |-> i], outcome |-> outcome])
       /\ CASE outcome = "ok" ->
                  /\ final_summary' = Some(WholeSummary("summary"))
                  /\ md_file' = final_summary'
                  /\ s_pc' = "written"
                  /\ error' = error
            [] outcome \in {"transport", "http"} ->
                  /\ s_pc' = "raised"
                  /\ error' = "RuntimeError"
                  /\ UNCHANGED <<final_summary, md_file>>
            [] OTHER ->
                  IF strategy = "deepseek"
                  THEN /\ s_pc' = "raised"
                       /\ error' = "KeyError"
                       /\ UNCHANGED <<final_summary, md_file>>
                  ELSE /\ final_summary' = Some(WholeSummary(""))
                       /\ md_file' = final_summary'
                       /\ s_pc' = "written"
                       /\ error' = error
    /\ UNCHANGED <<strategy, sentence_words, summary_chunk_size,
                   use_ollama_formatting, text_chunks, chunk_index,
                   chunk_summaries, unformatted, format_outcome>>
    /\ UNCHANGED <<tvars, cvars, hvars, pvars, xvars>>

\* target_sentences = max(3, n // 3), n being the number of sentences the
\* selection counts.  target_sentences_half is a variant taking a half.
target_sentences_half(n) == IF n \div 2 > 3 THEN n \div 2 ELSE 3

target_sentences(n) == IF n \div 3 > 3 THEN n \div 3 ELSE 3

\* generate_summary_extractive up to final_summary: the sentences are scored
\* by the NLP pipeline, which scores some number of them, or by the heuristic,
\* which scores those of more than 5 words; the max(3, n // 3) best of the
\* scored ones are selected.  chunk_size is not read.
ExtractiveSelect ==
    /\ s_pc = "start"
    /\ strategy = "extractive"
    /\ \E via \in {"nlp", "heuristic"} :
       \E scored \in 0..Len(sentence_words) :
          /\ via = "heuristic" =>
                scored = Cardinality({i \in DOMAIN sentence_words :
                                         sentence_words[i] > 5})
          /\ LET n == IF via = "nlp" THEN Len(sentence_words) ELSE scored
             IN final_summary' =
                   Some(ExtractiveSummary(via, <<Min(target_sentences(n), scored)>>))
    /\ s_pc' = "format"
    /\ UNCHANGED <<strategy, sentence_words, summary_chunk_size,
                   use_ollama_formatting, text_chunks, chunk_index,
                   chunk_summaries, requests_log, unformatted, format_outcome,
                   error, md_file>>
    /\ UNCHANGED <<tvars, cvars, hvars, pvars, xvars>>

\* final_summary = apply_ollama_formatting_if_enabled(final_summary, ...)
\* inside the try of generate_summary_extractive.
ApplyFormatting ==
    /\ s_pc = "format"
    /\ unformatted' = final_summary
    /\ \E outcome \in FormatOutcomes :
          /\ format_outcome' = IF use_ollama_formatting THEN outcome ELSE "skipped"
          /\ LET r == apply_ollama_formatting_if_enabled(
                          final_summary[1], use_ollama_formatting, outcome)
             IN IF r.raised
                THEN /\ s_pc' = "raised"
                     /\ error' = "RuntimeError: formatting"
                     /\ UNCHANGED final_summary
                ELSE /\ s_pc' = "save"
                     /\ final_summary' = Some(r.value)
                     /\ UNCHANGED error
    /\ UNCHANGED <<strategy, sentence_words, summary_chunk_size,
                   use_ollama_formatting, text_chunks, chunk_index,
                   chunk_summaries, requests_log, md_file>>
    /\ UNCHANGED <<tvars, cvars, hvars, pvars, xvars>>

\* save_summary_to_file(final_summary, transcription_path)
SaveSummary ==
    /\ s_pc = "save"
    /\ md_file' = final_summary
    /\ s_pc' = "written"
    /\ UNCHANGED <<strategy, sentence_words, summary_chunk_size,
                   use_ollama_formatting, text_chunks, chunk_index,
                   chunk_summaries, requests_log, final_summary, unformatted,
                   format_outcome, error>>
    /\ UNCHANGED <<tvars, cvars, hvars, pvars, xvars>>

SNext ==
    \/ StartLlmSummary
    \/ SummarizeChunk
    \/ WriteChunkedSummary
    \/ SummarizeWhole
    \/ ExtractiveSelect
    \/ ApplyFormatting
    \/ SaveSummary

(***************************************************************************)
(* The link history of the configuration file (config.py).  An entry is    *)
(* its uuid and its URL; uuid4 is a counter that never repeats.            *)
(***************************************************************************)

\* config["link_history"] = config["link_history"][:50]
HistoryLimit == 50

MaxAppends == 52       \* most save_link_to_history calls that persist
MaxRemoves == 1        \* most remove_link_from_history calls

Urls == {"https://youtu.be/a"}

HistoryEntry(id, url) == [id |-> id, url |-> url]

\* A variant of save_link_to_history that does not keep the entry.
save_link_to_history_dropping(history, entry) == history

\* A variant of save_link_to_history that adds the entry at the end.
save_link_to_history_appending(history, entry) ==
    LET inserted == Append(history, entry)
    IN SubSeq(inserted, 1, Min(HistoryLimit, Len(inserted)))

\* config["link_history"].insert(0, history_entry), then [:50].
save_link_to_history(history, entry) ==
    LET inserted == <<entry>> \o history
    IN SubSeq(inserted, 1, Min(HistoryLimit, Len(inserted)))

\* [entry for entry in config["link_history"] if entry.get("id") != link_id]
remove_link_from_history(history, link_id) ==
    SelectSeq(history, LAMBDA entry : entry.id # link_id)

\* The ids a remove call is tried with: the newest, the middle and the oldest
\* entry of the list, and an id that is not in the list.
RemoveCandidates(history) ==
    {0} \cup (IF history = <<>> THEN {}
              ELSE {history[1].id, history[(Len(history) + 1) \div 2].id,
                    history[Len(history)].id})

HInit ==
    /\ h_pc = "ready"
    /\ link_history = <<>>
    /\ next_id = 1
    /\ h_before = <<>>
    /\ h_last = [op |-> "none", arg |-> 0]
    /\ removes = 0

HIdle ==
    /\ h_pc = "idle"
    /\ link_history = <<>>
    /\ next_id = 1
    /\ h_before = <<>>
    /\ h_last = [op |-> "none", arg |-> 0]
    /\ removes = 0

\* save_link_to_history(url): load_config, insert, truncate, save_config.
\* A save_config that cannot write raises and leaves the file as it was.
SaveLink ==
    /\ h_pc = "ready"
    /\ next_id <= MaxAppends
    /\ \E url \in Urls, written \in BOOLEAN :
          IF written
          THEN /\ link_history' =
                     save_link_to_history(link_history, HistoryEntry(next_id, url))
               /\ next_id' = next_id + 1
               /\ h_before' = link_history
               /\ h_last' = [op |-> "save", arg |-> next_id]
          ELSE /\ h_last' = [op |-> "save_failed", arg |-> next_id]
               /\ h_before' = link_history
               /\ UNCHANGED <<link_history, next_id>>
    /\ UNCHANGED <<h_pc, removes>>
    /\ UNCHANGED <<tvars, cvars, svars, pvars, xvars>>

\* remove_link_from_history(link_id)
RemoveLink ==
    /\ h_pc = "ready"
    /\ removes < MaxRemoves
    /\ \E link_id \in RemoveCandidates(link_history) :
          /\ link_history' = remove_link_from_history(link_history, link_id)
          /\ h_last' = [op |-> "remove", arg |-> link_id]
    /\ h_before' = link_history
    /\ removes' = removes + 1
    /\ UNCHANGED <<h_pc, next_id>>
    /\ UNCHANGED <<tvars, cvars, svars, pvars, xvars>>

HNext ==
    \/ SaveLink
    \/ RemoveLink

(***************************************************************************)
(* A run of the pipeline: main of transcribe_yt.py (the CLI) and            *)
(* TranscribeYTGUI.transcribe_video of transcribe_yt_gui.py (the GUI).     *)
(* transcribe_audio and the generate_summary_* functions are the actions   *)
(* of TNext and SNext above, started by the run and awaited by it.         *)
(***************************************************************************)

\* The subtitle file and the text file convert_srt_to_text writes beside it.
SrtFile == [kind |-> "srt", n |-> 0]
SubtitleTxtFile == [kind |-> "txt", n |-> 1]

\* A variant of check_dependencies that only looks for ffmpeg.
check_dependencies_ffmpeg_only(ffmpeg_found, nemo) == ffmpeg_found

\* check_dependencies(): TRUE iff it returns, FALSE iff it raises.
check_dependencies(ffmpeg_found, nemo) == ffmpeg_found /\ nemo

\* A variant of AfterSubtitles that always goes on to the audio.
AfterSubtitlesAlwaysAudio(srt) == "audio"

\* "if srt_path:" and "if txt_path is None:": with a subtitle file the run
\* converts it, without one it downloads the audio.
AfterSubtitles(srt) == IF srt # None THEN "convert_srt" ELSE "audio"

\* (asset length, chunk_duration, overlap_duration) of the runs: the GUI
\* always calls transcribe_audio with chunk_duration=300, overlap_duration=30;
\* main passes args.chunk_duration and args.overlap_duration, any two
\* integers of the command line or of the configuration file.
PipelineAudio(fe) ==
    IF fe = "gui"
    THEN {<<ScenarioA.D * SampleRate, 300, 30>>, <<ScenarioB.D * SampleRate, 300, 30>>}
    ELSE {<<SampleRate, 1, 0>>, <<2 * SampleRate, 1, 0>>,
          <<2 * SampleRate, 1, 1>>, <<2 * SampleRate, 1, 2>>}

\* The chunk_size of the runs: --summary-chunk-size of the CLI; the GUI turns
\* the 0 of its scale into None.
PipelineChunkSizes(fe) ==
    IF fe = "gui" THEN {None, Some(1)} ELSE {None, Some(0), Some(1)}

\* The sentences (word counts) of the subtitle texts of the runs.
SubtitleTranscripts == {<<1>>, <<2, 1>>}

\* The word counts of the sentences of a transcript text.
TranscriptSentenceWords(txt) ==
    LET sentences == re_split(txt)
    IN [i \in DOMAIN sentences |-> WordCount(sentences[i])]

PInit ==
    /\ p_pc = "start"
    /\ frontend \in {"cli", "gui"}
    /\ force_transcribe \in BOOLEAN
    /\ model \in Strategies
    /\ deepseek_api_key \in BOOLEAN
    /\ ffmpeg \in BOOLEAN
    /\ mp3_path = None
    /\ srt_path = None
    /\ txt_path = None
    /\ md_path = None
    /\ trace = <<>>
    /\ exit_status = None
    /\ error_reports = 0

PIdle ==
    /\ p_pc = "idle"
    /\ frontend = "none"
    /\ force_transcribe = FALSE
    /\ model = "none"
    /\ deepseek_api_key = FALSE
    /\ ffmpeg = FALSE
    /\ mp3_path = None
    /\ srt_path = None
    /\ txt_path = None
    /\ md_path = None
    /\ trace = <<>>
    /\ exit_status = None
    /\ error_reports = 0

\* The module transcription as imported by a run: nemo_asr is the toolkit or
\* None, and transcribe_audio has not been called.
TImported ==
    /\ t_pc = "idle"
    /\ nemo_asr \in BOOLEAN
    /\ audio_len = 0
    /\ chunk_duration = 0
    /\ overlap_duration = 0
    /\ start_sample = 0
    /\ end_sample = 0
    /\ chunk_num = 0
    /\ transcriptions = <<>>
    /\ windows = <<>>
    /\ outcomes = <<>>
    /\ files = {}
    /\ asr_calls = <<>>
    /\ transcription = None

\* A variant of Fails that goes on to the cleanup after the error.
FailsAndCleansUp(call) ==
    /\ p_pc' = "cleanup_mp3"
    /\ trace' = trace \o <<call, "error">>
    /\ exit_status' = IF frontend = "cli" THEN Some(1) ELSE None
    /\ error_reports' = error_reports + 1

\* "except Exception as e" of the run: the CLI prints the error and calls
\* sys.exit(1); the GUI shows the error.  call is the call that raised.
Fails(call) ==
    /\ p_pc' = "failed"
    /\ trace' = trace \o <<call, "error">>
    /\ exit_status' = IF frontend = "cli" THEN Some(1) ELSE None
    /\ error_reports' = error_reports + 1

\* The DeepSeek model without an API key.  main raises ValueError, reported
\* once by its handler.  _generate_summary_by_model queues show_error and
\* returns None; open(None) then raises and the handler of transcribe_video
\* queues show_error again.
FailsOnMissingKey(call) ==
    /\ p_pc' = "failed"
    /\ trace' = trace \o <<call, "error">>
    /\ exit_status' = IF frontend = "cli" THEN Some(1) ELSE None
    /\ error_reports' = error_reports + (IF frontend = "gui" THEN 2 ELSE 1)

\* The call returned and the run goes on at position next.
Proceeds(call, next) ==
    /\ p_pc' = next
    /\ trace' = Append(trace, call)
    /\ UNCHANGED <<exit_status, error_reports>>

\* check_dependencies()
CheckDependencies ==
    /\ p_pc = "start"
    /\ IF check_dependencies(ffmpeg, nemo_asr)
       THEN Proceeds("check_dependencies", "history")
       ELSE Fails("check_dependencies")
    /\ UNCHANGED <<frontend, force_transcribe, model, deepseek_api_key, ffmpeg,
                   mp3_path, srt_path, txt_path, md_path>>
    /\ UNCHANGED <<tvars, cvars, svars, hvars, xvars>>

\* save_link_to_history(url)
SaveLinkToHistory ==
    /\ p_pc = "history"
    /\ \E url \in Urls, written \in BOOLEAN :
          IF written
          THEN /\ link_history' =
                     save_link_to_history(link_history, HistoryEntry(next_id, url))
               /\ next_id' = next_id + 1
               /\ h_before' = link_history
               /\ h_last' = [op |-> "save", arg |-> next_id]
               /\ Proceeds("save_link_to_history", "subtitles")
          ELSE /\ Fails("save_link_to_history")
               /\ UNCHANGED <<link_history, next_id, h_before, h_last>>
    /\ UNCHANGED <<h_pc, removes>>
    /\ UNCHANGED <<frontend, force_transcribe, model, deepseek_api_key, ffmpeg,
                   mp3_path, srt_path, txt_path, md_path>>
    /\ UNCHANGED <<tvars, cvars, svars, xvars>>

\* Step 1: "if not force_transcribe: srt_path = download_subtitles(...)".
\* yt-dlp leaves a subtitle file, leaves none, ends with an error status
\* (caught: None is returned), or cannot be run at all (not caught).
DownloadSubtitles ==
    /\ p_pc = "subtitles"
    /\ IF force_transcribe
       THEN /\ p_pc' = AfterSubtitles(srt_path)
            /\ UNCHANGED <<srt_path, files, trace, exit_status, error_reports>>
       ELSE \E outcome \in {"file", "no_file", "error_status", "raise"} :
               CASE outcome = "file" ->
                       /\ files' = files \cup {SrtFile}
                       /\ srt_path' = Some(SrtFile)
                       /\ Proceeds("download_subtitles", AfterSubtitles(srt_path'))
                 [] outcome \in {"no_file", "error_status"} ->
                       /\ UNCHANGED <<srt_path, files>>
                       /\ Proceeds("download_subtitles", AfterSubtitles(srt_path'))
                 [] OTHER ->
                       /\ Fails("download_subtitles")
                       /\ UNCHANGED <<srt_path, files>>
    /\ UNCHANGED <<frontend, force_transcribe, model, deepseek_api_key, ffmpeg,
                   mp3_path, txt_path, md_path>>
    /\ UNCHANGED <<t_pc, nemo_asr, audio_len, chunk_duration, overlap_duration,
                   start_sample, end_sample, chunk_num, transcriptions,
                   windows, outcomes, asr_calls, transcription>>
    /\ UNCHANGED <<cvars, svars, hvars, xvars>>

\* "if srt_path: txt_path = convert_srt_to_text(srt_path)"
ConvertSrtToText ==
    /\ p_pc = "convert_srt"
    /\ \E ok \in BOOLEAN :
          IF ok
          THEN /\ files' = files \cup {SubtitleTxtFile}
               /\ txt_path' = Some(SubtitleTxtFile)
               /\ Proceeds("convert_srt_to_text", "summarize")
          ELSE /\ Fails("convert_srt_to_text")
               /\ UNCHANGED <<txt_path, files>>
    /\ UNCHANGED <<frontend, force_transcribe, model, deepseek_api_key, ffmpeg,
                   mp3_path, srt_path, md_path>>
    /\ UNCHANGED <<t_pc, nemo_asr, audio_len, chunk_duration, overlap_duration,
                   start_sample, end_sample, chunk_num, transcriptions,
                   windows, outcomes, asr_calls, transcription>>
    /\ UNCHANGED <<cvars, svars, hvars, xvars>>

\* Step 2: "if txt_path is None: mp3_path = download_audio(...)" and the call
\* of transcribe_audio(mp3_path, chunk_duration, overlap_duration).
DownloadAudio ==
    /\ p_pc = "audio"
    /\ \E ok \in BOOLEAN :
          IF ok
          THEN /\ files' = files \cup {Mp3File}
               /\ mp3_path' = Some(Mp3File)
               /\ Proceeds("download_audio", "transcribe")
               /\ t_pc' = "start"
               /\ \E in \in PipelineAudio(frontend) :
                     /\ audio_len' = in[1]
                     /\ chunk_duration' = in[2]
                     /\ overlap_duration' = in[3]
          ELSE /\ Fails("download_audio")
               /\ UNCHANGED <<mp3_path, files, t_pc, audio_len, chunk_duration,
                              overlap_duration>>
    /\ UNCHANGED <<frontend, force_transcribe, model, deepseek_api_key, ffmpeg,
                   srt_path, txt_path, md_path>>
    /\ UNCHANGED <<nemo_asr, start_sample, end_sample, chunk_num,
                   transcriptions, windows, outcomes, asr_calls, transcription>>
    /\ UNCHANGED <<cvars, svars, hvars, xvars>>

\* "txt_path = transcribe_audio(...)" returns the path or raises.
TranscribeReturns ==
    /\ p_pc = "transcribe"
    /\ t_pc \in {"done", "raised"}
    /\ IF t_pc = "done"
       THEN /\ txt_path' = Some(TxtFile)
            /\ Proceeds("transcribe_audio", "summarize")
       ELSE /\ Fails("transcribe_audio")
            /\ UNCHANGED txt_path
    /\ UNCHANGED <<frontend, force_transcribe, model, deepseek_api_key, ffmpeg,
                   mp3_path, srt_path, md_path>>
    /\ UNCHANGED <<tvars, cvars, svars, hvars, xvars>>

\* Step 3: the choice of the summary function and its call.  With the model
\* "deepseek" and no API key the CLI raises ValueError; the GUI shows an
\* error, gets None for md_path and raises on open(md_path).
StartSummary ==
    /\ p_pc = "summarize"
    /\ IF model = "deepseek" /\ ~deepseek_api_key
       THEN /\ FailsOnMissingKey("generate_summary")
            /\ UNCHANGED <<s_pc, strategy, sentence_words, summary_chunk_size,
                           use_ollama_formatting>>
       ELSE /\ Proceeds("generate_summary", "summary")
            /\ s_pc' = "start"
            /\ strategy' = model
            /\ IF txt_path = Some(TxtFile)
               THEN sentence_words' = TranscriptSentenceWords(transcription[1])
               ELSE sentence_words' \in SubtitleTranscripts
            /\ summary_chunk_size' \in PipelineChunkSizes(frontend)
            /\ use_ollama_formatting' \in
                  (IF frontend = "cli" THEN {TRUE} ELSE BOOLEAN)
    /\ UNCHANGED <<frontend, force_transcribe, model, deepseek_api_key, ffmpeg,
                   mp3_path, srt_path, txt_path, md_path>>
    /\ UNCHANGED <<text_chunks, chunk_index, chunk_summaries, requests_log,
                   final_summary, unformatted, format_outcome, error, md_file>>
    /\ UNCHANGED <<tvars, cvars, hvars, xvars>>

\* "md_path = generate_summary_*(...)" returns the path or raises.
SummaryReturns ==
    /\ p_pc = "summary"
    /\ s_pc \in {"written", "raised"}
    /\ IF s_pc = "written"
       THEN /\ md_path' = Some("md")
            /\ Proceeds("summary_written",
                        IF frontend = "gui" THEN "display" ELSE "cleanup_mp3")
       ELSE /\ Fails("summary_raised")
            /\ UNCHANGED md_path
    /\ UNCHANGED <<frontend, force_transcribe, model, deepseek_api_key, ffmpeg,
                   mp3_path, srt_path, txt_path>>
    /\ UNCHANGED <<tvars, cvars, svars, hvars, xvars>>

\* Step 4 of the GUI: the summary file is read and rendered.
DisplaySummary ==
    /\ p_pc = "display"
    /\ \E ok \in BOOLEAN :
          IF ok THEN Proceeds("display_summary", "cleanup_mp3")
          ELSE Fails("display_summary")
    /\ UNCHANGED <<frontend, force_transcribe, model, deepseek_api_key, ffmpeg,
                   mp3_path, srt_path, txt_path, md_path>>
    /\ UNCHANGED <<tvars, cvars, svars, hvars, xvars>>

\* The variant of RemoveIntermediate with each removal in a try of its own.
RemoveIntermediateBestEffort(path, next) ==
    IF path # None /\ path[1] \in files
    THEN \E removed \in BOOLEAN :
            /\ files' = IF removed THEN files \ {path[1]} ELSE files
            /\ Proceeds("os.remove", next)
    ELSE /\ p_pc' = next
         /\ UNCHANGED <<files, trace, exit_status, error_reports>>

\* "if path and os.path.exists(path): os.remove(path)"; os.remove deletes the
\* file or raises.
RemoveIntermediate(path, next) ==
    IF path # None /\ path[1] \in files
    THEN \E removed \in BOOLEAN :
            IF removed
            THEN /\ files' = files \ {path[1]}
                 /\ Proceeds("os.remove", next)
            ELSE /\ Fails("os.remove")
                 /\ UNCHANGED files
    ELSE /\ p_pc' = next
         /\ UNCHANGED <<files, trace, exit_status, error_reports>>

\* Clean up intermediate files: the downloaded audio.
CleanupMp3 ==
    /\ p_pc = "cleanup_mp3"
    /\ RemoveIntermediate(mp3_path, "cleanup_srt")
    /\ UNCHANGED <<frontend, force_transcribe, model, deepseek_api_key, ffmpeg,
                   mp3_path, srt_path, txt_path, md_path>>
    /\ UNCHANGED <<t_pc, nemo_asr, audio_len, chunk_duration, overlap_duration,
                   start_sample, end_sample, chunk_num, transcriptions,
                   windows, outcomes, asr_calls, transcription>>
    /\ UNCHANGED <<cvars, svars, hvars, xvars>>

\* Clean up intermediate files: the subtitle file.
CleanupSrt ==
    /\ p_pc = "cleanup_srt"
    /\ RemoveIntermediate(srt_path, "cleanup_txt")
    /\ UNCHANGED <<frontend, force_transcribe, model, deepseek_api_key, ffmpeg,
                   mp3_path, srt_path, txt_path, md_path>>
    /\ UNCHANGED <<t_pc, nemo_asr, audio_len, chunk_duration, overlap_duration,
                   start_sample, end_sample, chunk_num, transcriptions,
                   windows, outcomes, asr_calls, transcription>>
    /\ UNCHANGED <<cvars, svars, hvars, xvars>>

\* Clean up intermediate files: the transcript text file.
CleanupTxt ==
    /\ p_pc = "cleanup_txt"
    /\ RemoveIntermediate(txt_path, "completed")
    /\ UNCHANGED <<frontend, force_transcribe, model, deepseek_api_key, ffmpeg,
                   mp3_path, srt_path, txt_path, md_path>>
    /\ UNCHANGED <<t_pc, nemo_asr, audio_len, chunk_duration, overlap_duration,
                   start_sample, end_sample, chunk_num, transcriptions,
                   windows, outcomes, asr_calls, transcription>>
    /\ UNCHANGED <<cvars, svars, hvars, xvars>>

\* "Process completed successfully!": main returns and the process exits
\* with status 0; the GUI shows "Complete!".
Complete ==
    /\ p_pc = "completed"
    /\ p_pc' = "done"
    /\ trace' = Append(trace, "completed")
    /\ exit_status' = IF frontend = "cli" THEN Some(0) ELSE None
    /\ UNCHANGED error_reports
    /\ UNCHANGED <<frontend, force_transcribe, model, deepseek_api_key, ffmpeg,
                   mp3_path, srt_path, txt_path, md_path>>
    /\ UNCHANGED <<tvars, cvars, svars, hvars, xvars>>

PNext ==
    \/ CheckDependencies
    \/ SaveLinkToHistory
    \/ DownloadSubtitles
    \/ ConvertSrtToText
    \/ DownloadAudio
    \/ TranscribeReturns
    \/ StartSummary
    \/ SummaryReturns
    \/ DisplaySummary
    \/ CleanupMp3
    \/ CleanupSrt
    \/ CleanupTxt
    \/ Complete
    \/ TNext
    \/ SNext

(***************************************************************************)
(* The configuration file: load_config and save_config of config.py.       *)
(***************************************************************************)
MaxConfigKeys == 2     \* most keys of a mapping handed to save_config

\* Python values: None, a bool, an int, a str, the list of history entries.
PyNone == <<"none">>
PyBool(b) == <<"bool", b>>
PyInt(n) == <<"int", n>>
PyStr(s) == <<"str", s>>
PyList(q) == <<"list", q>>

\* The decimal digits json writes for a number, and the number json reads
\* from digits.
RECURSIVE Digits(_)
Digits(n) == IF n < 10 THEN <<n>> ELSE Append(Digits(n \div 10), n % 10)
RECURSIVE ParseDigits(_)
ParseDigits(ds) ==
    IF Len(ds) = 1 THEN ds[1]
    ELSE 10 * ParseDigits(SubSeq(ds, 1, Len(ds) - 1)) + ds[Len(ds)]

\* json.dump of one value: null, true, false, a number, a string, an array
\* of objects.
json_dump_value(v) ==
    CASE v[1] = "none" -> <<"null">>
      [] v[1] = "bool" -> IF v[2] THEN <<"true">> ELSE <<"false">>
      [] v[1] = "int"  -> <<"number", Digits(v[2])>>
      [] v[1] = "str"  -> <<"string", v[2]>>
      [] v[1] = "list" ->
            <<"array", [i \in DOMAIN v[2] |->
                          <<"object", [id |-> <<"string", v[2][i].id>>,
                                       url |-> <<"string", v[2][i].url>>]>>]>>

\* json.load of one value.
json_load_value(j) ==
    CASE j[1] = "null"   -> PyNone
      [] j[1] = "true"   -> PyBool(TRUE)
      [] j[1] = "false"  -> PyBool(FALSE)
      [] j[1] = "number" -> PyInt(ParseDigits(j[2]))
      [] j[1] = "string" -> PyStr(j[2])
      [] j[1] = "array"  ->
            PyList([i \in DOMAIN j[2] |->
                      [id |-> j[2][i][2].id[2], url |-> j[2][i][2].url[2]]])

\* The file: absent, a JSON object, or bytes json.load cannot decode.
NoFile == <<>>
Garbage == <<"garbage">>
json_dump(config) == <<"json", [k \in DOMAIN config |-> json_dump_value(config[k])]>>
json_load(file) == [k \in DOMAIN file[2] |-> json_load_value(file[2][k])]

\* The keys of default_config, and the keys the specification recognizes.
DefaultKeys ==
    {"deepseek_api_key", "ollama_model", "ollama_formatting_model",
     "use_ollama_formatting", "chunk_duration", "overlap_duration",
     "summary_chunk_size", "link_history"}
RecognizedKeys == DefaultKeys \cup {"llm_model", "llm_prompt"}

\* default_config of load_config.
default_config ==
    [k \in DefaultKeys |->
        CASE k = "deepseek_api_key" -> PyNone
          [] k = "ollama_model" -> PyStr("vicuna:7b")
          [] k = "ollama_formatting_model" -> PyStr("nous-hermes2-mixtral:latest")
          [] k = "use_ollama_formatting" -> PyBool(TRUE)
          [] k = "chunk_duration" -> PyInt(300)
          [] k = "overlap_duration" -> PyInt(30)
          [] k = "summary_chunk_size" -> PyNone
          [] k = "link_history" -> PyList(<<>>)]

\* A variant of load_config that returns the file's mapping as it is.
load_config_unmerged(file) ==
    IF file = NoFile \/ file[1] # "json" THEN default_config ELSE json_load(file)

\* load_config(): the defaults without a file or with a file json.load cannot
\* decode; otherwise the file's mapping with the missing default keys added.
load_config(file) ==
    IF file = NoFile \/ file[1] # "json"
    THEN default_config
    ELSE LET config == json_load(file)
         IN [k \in DOMAIN config \cup DefaultKeys |->
                IF k \in DOMAIN config THEN config[k] ELSE default_config[k]]

\* The mappings saved: at most MaxConfigKeys keys, recognized or not, each
\* with any JSON value.
ConfigKeys == RecognizedKeys \cup {"theme"}
SavedValues ==
    {PyNone, PyBool(FALSE), PyInt(60), PyStr("x"),
     PyList(<<HistoryEntry(7, "https://youtu.be/a")>>)}
ConfigMappings ==
    UNION {[S -> SavedValues] :
              S \in {T \in SUBSET ConfigKeys : Cardinality(T) <= MaxConfigKeys}}

\* The file before the call: none, or the file of an earlier save.
EarlierFiles == {NoFile, json_dump([k \in {"chunk_duration"} |-> PyInt(60)])}

KInit ==
    /\ k_pc = "start"
    /\ config_file \in EarlierFiles
    /\ k_config \in ConfigMappings
    /\ k_saved = FALSE
    /\ k_loaded = None
    /\ gui_config = None
    /\ k_before = None
    /\ k_op = [name |-> "none", writes |-> {}]
    /\ k_count = 0

KIdle ==
    /\ k_pc = "idle"
    /\ config_file = NoFile
    /\ k_config = None
    /\ k_saved = FALSE
    /\ k_loaded = None
    /\ gui_config = None
    /\ k_before = None
    /\ k_op = [name |-> "none", writes |-> {}]
    /\ k_count = 0

\* save_config(config): the mapping is written whole; an IOError raises
\* RuntimeError, before the file was opened or after it was truncated.
SaveConfig ==
    /\ k_pc = "start"
    /\ \E ok \in BOOLEAN :
          IF ok
          THEN /\ config_file' = json_dump(k_config)
               /\ k_pc' = "saved"
          ELSE /\ config_file' \in {config_file, Garbage}
               /\ k_pc' = "save_raised"
    /\ UNCHANGED <<k_config, k_saved, k_loaded, gui_config, k_before, k_op,
                   k_count>>
    /\ UNCHANGED <<tvars, cvars, svars, hvars, pvars, gvars, rvars>>

\* load_config()
LoadConfig ==
    /\ k_pc \in {"start", "saved", "save_raised"}
    /\ k_loaded' = Some(load_config(config_file))
    /\ k_saved' = (k_pc = "saved")
    /\ k_pc' = "loaded"
    /\ UNCHANGED <<config_file, k_config, gui_config, k_before, k_op, k_count>>
    /\ UNCHANGED <<tvars, cvars, svars, hvars, pvars, gvars, rvars>>

KNext ==
    \/ SaveConfig
    \/ LoadConfig

\* ---- idle GUI and idle concurrent calls
GIdle ==
    /\ g_pc = "idle"
    /\ url_text = ""
    /\ button_sensitive = FALSE
    /\ worker_pc = <<>>
    /\ idle_queue = <<>>
    /\ widget_log = {}
    /\ runs_started = 0

RIdle ==
    /\ r_pc = <<>>
    /\ r_config = <<>>
    /\ r_entry = <<>>
    /\ r_order = <<>>

XIdle == KIdle /\ GIdle /\ RIdle

(***************************************************************************)
(* The writers of the configuration file, one after the other: the history *)
(* functions of config.py, the set commands of main, and the configuration *)
(* dialog and the clear-history button of the GUI.                         *)
(***************************************************************************)
MaxConfigOps == 4      \* most operations of a sequence

\* config[key] = value
SetKey(config, key, value) ==
    [k \in DOMAIN config \cup {key} |-> IF k = key THEN value ELSE config[k]]

\* config.get(key, default)
GetKey(config, key, default) ==
    IF key \in DOMAIN config THEN config[key] ELSE default

\* The entries of config["link_history"].
HistoryOf(config) == config["link_history"][2]

\* The keys the configuration dialog assigns on OK.
DialogKeys ==
    {"deepseek_api_key", "ollama_model", "ollama_formatting_model",
     "use_ollama_formatting", "llm_model", "llm_prompt", "summary_chunk_size"}

\* The text api_key_entry is filled with: the key if there is one.
ApiKeyText(config) ==
    IF config["deepseek_api_key"] \in {PyNone, PyStr("")}
    THEN PyStr("")
    ELSE config["deepseek_api_key"]

\* self.config after OK: the dialog's widgets, shown with the values of
\* self.config, are written back to it; api_key is the text of api_key_entry.
DialogConfig(config, api_key) ==
    [k \in DOMAIN config \cup DialogKeys |->
        CASE k = "deepseek_api_key" -> api_key
          [] k = "ollama_model" -> GetKey(config, k, PyStr("vicuna:7b"))
          [] k = "ollama_formatting_model" ->
                GetKey(config, k, PyStr("nous-hermes2-mixtral:latest"))
          [] k = "use_ollama_formatting" -> GetKey(config, k, PyBool(TRUE))
          [] k = "llm_model" -> GetKey(config, k, PyStr("deepseek-chat"))
          [] k = "llm_prompt" -> GetKey(config, k, PyStr("Please provide ..."))
          [] k = "summary_chunk_size" -> GetKey(config, k, PyNone)
          [] OTHER -> config[k]]

\* The values of the set commands of main.
CliSettings ==
    {<<"deepseek_api_key", PyStr("sk-cli")>>, <<"chunk_duration", PyInt(60)>>}

OInit ==
    /\ k_pc = "ops"
    /\ config_file = NoFile
    /\ k_config = None
    /\ k_saved = FALSE
    /\ k_loaded = None
    /\ gui_config = None
    /\ k_before = None
    /\ k_op = [name |-> "none", writes |-> {}]
    /\ k_count = 0

\* What every operation logs: the configuration persisted before it, its
\* name, the keys it is to write and the history entries it is to drop.
Logged(name, writes) ==
    /\ k_pc = "ops"
    /\ k_count < MaxConfigOps
    /\ k_count' = k_count + 1
    /\ k_before' = Some(load_config(config_file))
    /\ k_op' = [name |-> name, writes |-> writes]
    /\ UNCHANGED <<k_pc, k_config, k_saved, k_loaded>>
    /\ UNCHANGED <<tvars, cvars, svars, hvars, pvars, gvars, rvars>>

\* TranscribeYTGUI.__init__: self.config = load_config()
GuiStart ==
    /\ gui_config = None
    /\ gui_config' = Some(load_config(config_file))
    /\ UNCHANGED config_file
    /\ Logged("gui_start", {})

\* save_link_to_history(url), from main or from the GUI's worker.
AppendHistory ==
    /\ \E url \in Urls :
          LET config == load_config(config_file)
              entry == HistoryEntry(k_count + 1, url)
          IN config_file' =
                json_dump(SetKey(config, "link_history",
                     PyList(save_link_to_history(HistoryOf(config), entry))))
    /\ UNCHANGED gui_config
    /\ Logged("append", {"link_history"})

\* remove_link_from_history(link_id), from the history list of the GUI.
RemoveHistory ==
    /\ gui_config # None
    /\ LET config == load_config(config_file)
       IN \E i \in DOMAIN HistoryOf(config) :
             config_file' =
                json_dump(SetKey(config, "link_history",
                     PyList(remove_link_from_history(HistoryOf(config),
                                                     HistoryOf(config)[i].id))))
    /\ UNCHANGED gui_config
    /\ Logged("remove", {"link_history"})

\* on_clear_history_clicked, answered with Yes.
ClearHistory ==
    /\ gui_config # None
    /\ config_file' =
          json_dump(SetKey(load_config(config_file), "link_history", PyList(<<>>)))
    /\ UNCHANGED gui_config
    /\ Logged("clear", {"link_history"})

\* --set-api-key, --set-chunk-duration, ... of main.
CliSet ==
    /\ \E kv \in CliSettings :
          /\ config_file' = json_dump(SetKey(load_config(config_file), kv[1], kv[2]))
          /\ Logged("set", {kv[1]})
    /\ UNCHANGED gui_config

\* on_configure_clicked, answered with OK: self.config, loaded when the GUI
\* started, is assigned the dialog's values and handed to save_config.
DialogSave ==
    /\ gui_config # None
    /\ \E api_key \in {ApiKeyText(gui_config[1]), PyStr("sk-gui")} :
          /\ gui_config' = Some(DialogConfig(gui_config[1], api_key))
          /\ config_file' = json_dump(gui_config'[1])
    /\ Logged("dialog", DialogKeys)

ONext ==
    \/ GuiStart
    \/ AppendHistory
    \/ RemoveHistory
    \/ ClearHistory
    \/ CliSet
    \/ DialogSave

(***************************************************************************)
(* Two calls of save_link_to_history at the same time: two processes, or   *)
(* two threads of one.  Between its load_config and its save_config a call  *)
(* asks yt-dlp for the title; nothing locks the file.                       *)
(***************************************************************************)
Callers == {1, 2}

\* The URLs of the two calls.
RaceUrls == {"https://youtu.be/a", "https://youtu.be/b"}

\* The link_history of the file before the calls: empty, or one entry.
RaceHistories == {<<>>, <<HistoryEntry(0, "https://youtu.be/a")>>}

\* A variant of SavedConfig that inserts into what is persisted at the time
\* of the save, as a call holding a lock over load and save would.
SavedConfigReloading(loaded, persisted, entry) ==
    SetKey(persisted, "link_history",
           PyList(save_link_to_history(HistoryOf(persisted), entry)))

\* The mapping a call hands to save_config: the config it loaded, with its
\* entry inserted and the list cut to 50.  What is persisted by then is not
\* read again.
SavedConfig(loaded, persisted, entry) ==
    SetKey(loaded, "link_history",
           PyList(save_link_to_history(HistoryOf(loaded), entry)))

RInit ==
    /\ r_pc = [p \in Callers |-> "start"]
    /\ r_config = [p \in Callers |-> None]
    /\ \E urls \in [Callers -> RaceUrls] :
          r_entry = [p \in Callers |-> HistoryEntry(p, urls[p])]
    /\ r_order = <<>>
    /\ \E history \in RaceHistories :
          /\ config_file = json_dump(SetKey(default_config, "link_history",
                                            PyList(history)))
          /\ k_before = Some(load_config(config_file))
    /\ k_pc = "race"
    /\ k_config = None
    /\ k_saved = FALSE
    /\ k_loaded = None
    /\ gui_config = None
    /\ k_op = [name |-> "none", writes |-> {}]
    /\ k_count = 0

\* config = load_config() of one call.
RaceLoad ==
    /\ \E p \in Callers :
          /\ r_pc[p] = "start"
          /\ r_config' = [r_config EXCEPT ![p] = Some(load_config(config_file))]
          /\ r_pc' = [r_pc EXCEPT ![p] = "loaded"]
          /\ r_order' = Append(r_order, <<p, "load">>)
    /\ UNCHANGED <<r_entry, kvars>>
    /\ UNCHANGED <<tvars, cvars, svars, hvars, pvars, gvars>>

\* insert, cut and save_config(config) of one call; an IOError raises.
RaceSave ==
    /\ \E p \in Callers, ok \in BOOLEAN :
          /\ r_pc[p] = "loaded"
          /\ IF ok
             THEN /\ config_file' =
                        json_dump(SavedConfig(r_config[p][1],
                                              load_config(config_file), r_entry[p]))
                  /\ r_pc' = [r_pc EXCEPT ![p] = "done"]
                  /\ r_order' = Append(r_order, <<p, "save">>)
             ELSE /\ r_pc' = [r_pc EXCEPT ![p] = "raised"]
                  /\ UNCHANGED <<config_file, r_order>>
    /\ UNCHANGED <<r_config, r_entry>>
    /\ UNCHANGED <<k_pc, k_config, k_saved, k_loaded, gui_config, k_before,
                   k_op, k_count>>
    /\ UNCHANGED <<tvars, cvars, svars, hvars, pvars, gvars>>

RNext ==
    \/ RaceLoad
    \/ RaceSave

(***************************************************************************)
(* The threads of the GUI: the UI thread, which runs the signal handlers   *)
(* and the callbacks queued with GLib.idle_add, and the worker threads      *)
(* on_transcribe_clicked starts.                                            *)
(***************************************************************************)
MaxWorkers == 2        \* most worker threads started

Workers == 1..MaxWorkers

\* The widget each queued callback touches.
WidgetOf(callback) ==
    CASE callback = "update_progress" -> "progress_bar"
      [] callback = "update_status" -> "status_label"
      [] callback = "display_summary" -> "summary_view"
      [] callback = "show_error" -> "error_dialog"
      [] callback = "set_sensitive" -> "transcribe_button"

\* The worker threads that are running.
Running == {w \in Workers : worker_pc[w] \notin {"unstarted", "finished"}}

GInit ==
    /\ g_pc = "main_loop"
    /\ url_text = ""
    /\ button_sensitive = TRUE
    /\ worker_pc = [w \in Workers |-> "unstarted"]
    /\ idle_queue = <<>>
    /\ widget_log = {}
    /\ runs_started = 0

\* The user types a URL into url_entry, or empties it.
TypeUrl ==
    /\ g_pc = "main_loop"
    /\ \E url \in Urls \cup {""} : url_text' = url
    /\ UNCHANGED <<g_pc, button_sensitive, worker_pc, idle_queue, widget_log,
                   runs_started>>
    /\ UNCHANGED <<tvars, cvars, svars, hvars, pvars, kvars, rvars>>

\* on_history_selected on a column other than "Remove": the URL of the row
\* is put into url_entry; no run is started.
SelectHistoryRow ==
    /\ g_pc = "main_loop"
    /\ \E url \in Urls : url_text' = url
    /\ widget_log' = widget_log \cup {<<"ui", "url_entry">>, <<"ui", "status_label">>}
    /\ UNCHANGED <<g_pc, button_sensitive, worker_pc, idle_queue, runs_started>>
    /\ UNCHANGED <<tvars, cvars, svars, hvars, pvars, kvars, rvars>>

\* on_transcribe_clicked: without a URL an error dialog and nothing else;
\* with one the button is made insensitive and a thread is started.  The
\* handler does not look for a thread that is still running.
on_transcribe_clicked ==
    IF url_text = ""
    THEN /\ widget_log' = widget_log \cup {<<"ui", "url_entry">>, <<"ui", "error_dialog">>}
         /\ UNCHANGED <<button_sensitive, worker_pc, runs_started>>
    ELSE /\ \E w \in Workers : worker_pc[w] = "unstarted"
         /\ LET w == CHOOSE w \in Workers :
                        /\ worker_pc[w] = "unstarted"
                        /\ \A v \in Workers : worker_pc[v] = "unstarted" => w <= v
            IN worker_pc' = [worker_pc EXCEPT ![w] = "begin"]
         /\ button_sensitive' = FALSE
         /\ runs_started' = runs_started + 1
         /\ widget_log' = widget_log \cup
               {<<"ui", "url_entry">>, <<"ui", "transcribe_button">>,
                <<"ui", "progress_bar">>, <<"ui", "status_label">>}

\* The "clicked" signal of transcribe_button: GTK delivers it only while the
\* button is sensitive.
ClickTranscribe ==
    /\ g_pc = "main_loop"
    /\ button_sensitive
    /\ on_transcribe_clicked
    /\ UNCHANGED <<g_pc, url_text, idle_queue>>
    /\ UNCHANGED <<tvars, cvars, svars, hvars, pvars, kvars, rvars>>

\* The "activate" signal of url_entry (Enter), connected to the same
\* handler; the entry stays sensitive during a run.
PressEnter ==
    /\ g_pc = "main_loop"
    /\ on_transcribe_clicked
    /\ UNCHANGED <<g_pc, url_text, idle_queue>>
    /\ UNCHANGED <<tvars, cvars, svars, hvars, pvars, kvars, rvars>>

\* transcribe_video up to Step 1: progress is queued; check_dependencies or
\* save_link_to_history may raise.
WorkerBegin ==
    /\ \E w \in Workers, ok \in BOOLEAN :
          /\ worker_pc[w] = "begin"
          /\ worker_pc' = [worker_pc EXCEPT ![w] = IF ok THEN "options" ELSE "failing"]
    /\ idle_queue' = Append(idle_queue, "update_progress")
    /\ UNCHANGED <<g_pc, url_text, button_sensitive, widget_log, runs_started>>
    /\ UNCHANGED <<tvars, cvars, svars, hvars, pvars, kvars, rvars>>

\* Step 1 and 2: "force_transcribe = self.force_transcribe_check.get_active()"
\* is called by the worker itself; the downloads and the transcription may
\* raise.
WorkerReadOptions ==
    /\ \E w \in Workers, ok \in BOOLEAN :
          /\ worker_pc[w] = "options"
          /\ worker_pc' = [worker_pc EXCEPT ![w] = IF ok THEN "summary" ELSE "failing"]
    /\ widget_log' = widget_log \cup {<<"worker", "force_transcribe_check">>}
    /\ idle_queue' = Append(idle_queue, "update_progress")
    /\ UNCHANGED <<g_pc, url_text, button_sensitive, runs_started>>
    /\ UNCHANGED <<tvars, cvars, svars, hvars, pvars, kvars, rvars>>

\* Step 3 to 5: self.model_combo.get_active() and self.chunk_scale.get_value()
\* are called by the worker itself; the summary is queued for display, or a
\* call raises.
WorkerSummarize ==
    /\ \E w \in Workers, ok \in BOOLEAN :
          /\ worker_pc[w] = "summary"
          /\ IF ok
             THEN /\ worker_pc' = [worker_pc EXCEPT ![w] = "finishing"]
                  /\ idle_queue' = idle_queue \o <<"display_summary", "update_status">>
             ELSE /\ worker_pc' = [worker_pc EXCEPT ![w] = "failing"]
                  /\ idle_queue' = idle_queue
    /\ widget_log' = widget_log \cup
          {<<"worker", "model_combo">>, <<"worker", "chunk_scale">>}
    /\ UNCHANGED <<g_pc, url_text, button_sensitive, runs_started>>
    /\ UNCHANGED <<tvars, cvars, svars, hvars, pvars, kvars, rvars>>

\* "except Exception" and "finally" of transcribe_video: show_error is queued
\* after a failure, set_sensitive(True) always, and the thread ends.
WorkerFinish ==
    /\ \E w \in Workers :
          /\ worker_pc[w] \in {"finishing", "failing"}
          /\ idle_queue' = idle_queue \o
                (IF worker_pc[w] = "failing" THEN <<"show_error">> ELSE <<>>)
                \o <<"set_sensitive">>
          /\ worker_pc' = [worker_pc EXCEPT ![w] = "finished"]
    /\ UNCHANGED <<g_pc, url_text, button_sensitive, widget_log, runs_started>>
    /\ UNCHANGED <<tvars, cvars, svars, hvars, pvars, kvars, rvars>>

\* The main loop runs the oldest queued callback on the UI thread.
Dispatch ==
    /\ g_pc = "main_loop"
    /\ idle_queue # <<>>
    /\ idle_queue' = Tail(idle_queue)
    /\ widget_log' = widget_log \cup {<<"ui", WidgetOf(Head(idle_queue))>>}
    /\ button_sensitive' =
          IF Head(idle_queue) = "set_sensitive" THEN TRUE ELSE button_sensitive
    /\ UNCHANGED <<g_pc, url_text, worker_pc, runs_started>>
    /\ UNCHANGED <<tvars, cvars, svars, hvars, pvars, kvars, rvars>>

GNext ==
    \/ TypeUrl
    \/ SelectHistoryRow
    \/ ClickTranscribe
    \/ PressEnter
    \/ WorkerBegin
    \/ WorkerReadOptions
    \/ WorkerSummarize
    \/ WorkerFinish
    \/ Dispatch

(***************************************************************************)
(* The specifications: one per function under test, and the whole run.     *)
(***************************************************************************)
InitTranscribe == TInit /\ CIdle /\ SIdle /\ HIdle /\ PIdle /\ XIdle
InitChunkText == TIdle /\ CInit /\ SIdle /\ HIdle /\ PIdle /\ XIdle
InitSummary == TIdle /\ CIdle /\ SInit /\ HIdle /\ PIdle /\ XIdle
InitHistory == TIdle /\ CIdle /\ SIdle /\ HInit /\ PIdle /\ XIdle
InitPipeline == TImported /\ CIdle /\ SIdle /\ HIdle /\ PInit /\ XIdle
InitConfig == TIdle /\ CIdle /\ SIdle /\ HIdle /\ PIdle /\ KInit /\ GIdle /\ RIdle
InitConfigOps == TIdle /\ CIdle /\ SIdle /\ HIdle /\ PIdle /\ OInit /\ GIdle /\ RIdle
InitRace == TIdle /\ CIdle /\ SIdle /\ HIdle /\ PIdle /\ GIdle /\ RInit
InitGui == TIdle /\ CIdle /\ SIdle /\ HIdle /\ PIdle /\ KIdle /\ GInit /\ RIdle

SpecTranscribe == InitTranscribe /\ [][TNext]_vars
SpecTranscribeFair == SpecTranscribe /\ WF_vars(TNext)
SpecChunkText == InitChunkText /\ [][CNext]_vars
SpecSummary == InitSummary /\ [][SNext]_vars
SpecHistory == InitHistory /\ [][HNext]_vars
SpecPipeline == InitPipeline /\ [][PNext]_vars
SpecConfig == InitConfig /\ [][KNext]_vars
SpecConfigOps == InitConfigOps /\ [][ONext]_vars
SpecRace == InitRace /\ [][RNext]_vars
SpecGui == InitGui /\ [][GNext]_vars

(***************************************************************************)
(* Properties of the chunked transcription (SpecTranscribe).                *)
(***************************************************************************)

\* transcribe_audio_chunked has returned.
ChunkedReturned == windows # <<>> /\ t_pc \notin {"chunk_write", "chunk_asr"}

\* C1: for D > C and 0 <= O < C, window 0 starts at 0, every later window
\* starts exactly O before the end of the previous one, every window but the
\* last has length exactly C, every window lies inside the asset, and the
\* last window ends exactly at D; D=700, C=300, O=30 gives exactly the three
\* windows [0,300), [270,570), [540,700).
C1_WindowsCoverAsset ==
    /\ \A i \in DOMAIN windows :
          /\ i = 1 => windows[i][1] = 0
          /\ i > 1 => windows[i][1] = windows[i - 1][2] - overlap_duration * SampleRate
          /\ i < Len(windows) =>
                windows[i][2] - windows[i][1] = chunk_duration * SampleRate
          /\ i = Len(windows) =>
                windows[i][2] - windows[i][1] <= chunk_duration * SampleRate
          /\ 0 <= windows[i][1] /\ windows[i][1] < windows[i][2]
          /\ windows[i][2] <= audio_len
    /\ ChunkedReturned => windows[Len(windows)][2] = audio_len
    /\ (/\ ChunkedReturned
        /\ audio_len = ScenarioB.D * SampleRate
        /\ chunk_duration = ScenarioB.C
        /\ overlap_duration = ScenarioB.O)
       => windows = << <<0, 300 * SampleRate>>,
                       <<270 * SampleRate, 570 * SampleRate>>,
                       <<540 * SampleRate, 700 * SampleRate>> >>

\* C1's case: scenario B has been transcribed in three windows.
C1_Witness ==
    /\ t_pc = "done"
    /\ audio_len = ScenarioB.D * SampleRate
    /\ chunk_duration = ScenarioB.C
    /\ overlap_duration = ScenarioB.O
    /\ Len(windows) = 3

\* C2: the chunked path is taken if and only if D > C; for every D <= C
\* (D = C included) the backend is called exactly once, on the whole WAV, and
\* no window file is written.
C2_ChunkedIffLonger ==
    /\ t_pc = "single" => audio_len <= chunk_duration * SampleRate
    /\ t_pc \in {"chunk_write", "chunk_asr", "join"} =>
          audio_len > chunk_duration * SampleRate
    /\ (t_pc \in {"write", "cleanup", "done"}
            /\ audio_len <= chunk_duration * SampleRate) =>
          /\ asr_calls = <<WavFile>>
          /\ windows = <<>>
    /\ (t_pc \in {"write", "cleanup", "done"}
            /\ audio_len > chunk_duration * SampleRate) =>
          /\ windows # <<>>
          /\ Len(asr_calls) = Len(windows)
          /\ \A i \in DOMAIN asr_calls : asr_calls[i] = ChunkFile(i - 1)

\* C2's case: an asset of exactly chunk_duration was transcribed in one pass.
C2_Witness ==
    /\ t_pc = "done"
    /\ audio_len = chunk_duration * SampleRate
    /\ asr_calls = <<WavFile>>

\* The words of the windows whose backend call gave a text that is not blank,
\* in ascending window index (window i - 1 speaks the word i - 1).
RECURSIVE KeptWords(_, _)
KeptWords(outs, i) ==
    IF i > Len(outs) THEN <<>>
    ELSE (IF outs[i] \in {"text", "padded"} THEN << <<ToString(i - 1)>> >> ELSE <<>>)
         \o KeptWords(outs, i + 1)

\* C3: whatever windows raise or give no or blank text, the chunked
\* transcription does not raise and returns exactly the trimmed texts of the
\* other windows, in ascending window index, joined by single spaces.
C3_FailedWindowsSkipped ==
    /\ (t_pc \in {"write", "cleanup", "done"} /\ windows # <<>>) =>
          transcription = Some(join(<<Space>>, KeptWords(outcomes, 1)))
    /\ (t_pc = "raised" /\ windows # <<>>) =>
          /\ Len(outcomes) = Len(windows)
          /\ transcription = Some(join(<<Space>>, KeptWords(outcomes, 1)))

\* C3's case: a window raised, another gave a padded text, a later one gave
\* a text, and the transcription has returned.
C3_Witness ==
    /\ t_pc = "done"
    /\ \E i, j, k \in DOMAIN outcomes :
          /\ i < j /\ j < k
          /\ outcomes[i] = "padded"
          /\ outcomes[j] = "raise"
          /\ outcomes[k] = "text"

(***************************************************************************)
(* Properties of chunk_text (SpecChunkText).                                *)
(***************************************************************************)

\* The concatenation of a list of lists.
RECURSIVE Flatten(_)
Flatten(qs) == IF qs = <<>> THEN <<>> ELSE Head(qs) \o Flatten(Tail(qs))

\* The sentences of the chunks, read chunk by chunk.
ChunkSentences == Flatten([i \in DOMAIN chunks |-> re_split(chunks[i])])

\* C4: for any text and any chunk_size >= 1 the sentences of the chunks, read
\* chunk by chunk in order, are exactly the sentences of the input: none is
\* lost, duplicated, split or reordered.
C4_SentencesPreserved ==
    c_pc = "returned" => ChunkSentences = re_split(text)

\* C4's case: a text of at least three sentences came back in at least two
\* chunks, one of them holding two sentences.
C4_Witness ==
    /\ c_pc = "returned"
    /\ Len(re_split(text)) >= 3
    /\ Len(chunks) >= 2
    /\ \E i \in DOMAIN chunks : Len(re_split(chunks[i])) >= 2

\* C5: every chunk has at most chunk_size words or is one sentence of more
\* than chunk_size words; a chunk is closed only when the next sentence
\* would push its word count above chunk_size.
C5_BudgetSoftCeiling ==
    c_pc = "returned" =>
       /\ \A i \in DOMAIN chunks :
             \/ WordCount(chunks[i]) <= chunk_size
             \/ /\ Len(re_split(chunks[i])) = 1
                /\ WordCount(chunks[i]) > chunk_size
       /\ \A i \in 1..(Len(chunks) - 1) :
             WordCount(chunks[i]) + WordCount(re_split(chunks[i + 1])[1])
                > chunk_size

\* C5's case: a sentence over the budget came back as a chunk of its own,
\* beside a chunk of two sentences within the budget.
C5_Witness ==
    /\ c_pc = "returned"
    /\ \E i, j \in DOMAIN chunks :
          /\ WordCount(chunks[i]) > chunk_size
          /\ WordCount(chunks[j]) <= chunk_size
          /\ Len(re_split(chunks[j])) >= 2
          /\ WordCount(re_split(chunks[j])[2]) > 0

\* C6: for any text, the empty and the whitespace-only one included, and any
\* chunk_size >= 1, no chunk returned is empty.
C6_NoEmptyChunk ==
    c_pc = "returned" => \A i \in DOMAIN chunks : chunks[i] # <<>>

(***************************************************************************)
(* Properties of the summarization strategies (SpecSummary).                *)
(***************************************************************************)

\* The call is one of scenario C: 2,500 words, summary_chunk_size 1000.
InScenarioC ==
    /\ SumSeq(sentence_words) = ScenarioC.words
    /\ summary_chunk_size = Some(ScenarioC.chunk_size)

\* An LLM strategy has split the transcript.
LlmChunked ==
    /\ strategy \in {"deepseek", "ollama"}
    /\ ChunkingOn(summary_chunk_size)
    /\ s_pc \in {"chunk_loop", "written", "raised"}

\* The word count of a text chunk.
ChunkWords(g) == SumSeq([j \in DOMAIN g |-> sentence_words[g[j]]])

\* Every chunk is within the budget or is one sentence over it.
ChunksWithinBudget ==
    \A c \in DOMAIN text_chunks :
       \/ ChunkWords(text_chunks[c]) <= summary_chunk_size[1]
       \/ Len(text_chunks[c]) = 1

\* The summary written has the heading and the sections "Chunk 1 Summary" ..
\* "Chunk n Summary", in this order.
SectionsInOrder(n) ==
    /\ md_file # None
    /\ md_file[1].kind = "chunked"
    /\ md_file[1].heading
    /\ Len(md_file[1].sections) = n
    /\ \A i \in DOMAIN md_file[1].sections : md_file[1].sections[i].n = i

\* C7 as stated: a transcript of 2,500 words with summary_chunk_size=1000 is
\* split into exactly 3 chunks, each of at most 1000 words unless it is one
\* over-budget sentence, and the summary has exactly the 3 sections
\* "Chunk 1 Summary", "Chunk 2 Summary", "Chunk 3 Summary" in order.
C7_ExactlyThreeChunks ==
    (InScenarioC /\ LlmChunked) =>
       /\ Len(text_chunks) = 3
       /\ ChunksWithinBudget
       /\ s_pc = "written" => SectionsInOrder(3)

\* C7 as amended: the transcript is split into exactly 3 chunks when no
\* sentence has more than 250 words, and into at least 3 when no sentence
\* exceeds the budget; each chunk has at most 1000 words unless it is one
\* over-budget sentence; a summary that is written has exactly one section
\* "Chunk N Summary" per chunk, N = 1..n in order.
C7_ChunksFollowSentences ==
    (InScenarioC /\ LlmChunked) =>
       /\ (\A i \in DOMAIN sentence_words : sentence_words[i] <= 250) =>
             Len(text_chunks) = 3
       /\ (\A i \in DOMAIN sentence_words :
              sentence_words[i] <= ScenarioC.chunk_size) =>
             Len(text_chunks) >= 3
       /\ Len(text_chunks) >= 1
       /\ ChunksWithinBudget
       /\ s_pc = "written" => SectionsInOrder(Len(text_chunks))

\* C7's case: 2,500 words in sentences of 50 and 130 words were summarized
\* in three chunks and the summary is written.
C7_Witness ==
    /\ InScenarioC
    /\ LlmChunked
    /\ s_pc = "written"
    /\ sentence_words[1] = 50
    /\ sentence_words[2] = 130
    /\ Len(text_chunks) = 3
    /\ Len(md_file[1].sections) = 3

\* C8: in a chunked summary of the remote-API or local-model strategy over n
\* chunks, whatever requests fail (transport error, HTTP error status, a
\* response without the text), the call does not raise and writes the heading
\* and exactly n sections in ascending order, the section of each failed
\* chunk holding the error placeholder, every later chunk being requested.
C8_ChunkFailuresTolerated ==
    (strategy \in {"deepseek", "ollama"} /\ ChunkingOn(summary_chunk_size)) =>
       /\ s_pc # "raised"
       /\ s_pc = "written" =>
             /\ SectionsInOrder(Len(text_chunks))
             /\ Len(requests_log) = Len(text_chunks)
             /\ \A i \in DOMAIN requests_log :
                   /\ requests_log[i].content = text_chunks[i]
                   /\ requests_log[i].outcome # "ok" =>
                         md_file[1].sections[i].content = ErrorPlaceholder

\* C9: the three strategies chunk alike: with chunk_size non-null and > 0
\* each writes one section per chunk of chunk_text, in chunk order under the
\* heading; with chunk_size null or 0 each summarizes the text in one pass.
C9_StrategiesChunkAlike ==
    s_pc = "written" =>
       IF ChunkingOn(summary_chunk_size)
       THEN /\ SectionsInOrder(Len(ChunkGroups(sentence_words, summary_chunk_size[1])))
            /\ \A i \in DOMAIN md_file[1].sections :
                  md_file[1].sections[i].of =
                     ChunkGroups(sentence_words, summary_chunk_size[1])[i]
       ELSE /\ md_file[1].kind # "chunked"
            /\ md_file[1].sections = <<>>

\* C10: the formatting pass never raises and never loses the summary: the
\* result is the formatter's text when the pass is enabled and the request
\* gives a non-empty text, and the summary it was given when the pass is
\* disabled, the request fails in any way or gives an empty text.
C10_FormattingFallsBack ==
    /\ error # "RuntimeError: formatting"
    /\ (strategy = "extractive" /\ s_pc \in {"save", "written"}) =>
          /\ unformatted # None
          /\ final_summary =
                IF use_ollama_formatting /\ format_outcome = "ok_text"
                THEN Some(FormatterText) ELSE unformatted
    /\ (strategy = "extractive" /\ s_pc = "written") => md_file = final_summary

\* C10's case: the formatting request answered with something that is not
\* the JSON object expected, and the unformatted summary was written.
C10_Witness ==
    /\ strategy = "extractive"
    /\ s_pc = "written"
    /\ use_ollama_formatting
    /\ format_outcome = "bad_shape"
    /\ md_file = unformatted
    /\ md_file # None

\* The number of sentences generate_summary_extractive has just selected.
SelectedCount == final_summary[1].body[1]

\* The sentences the heuristic path scores: those of more than 5 words.
LongSentences == Cardinality({i \in DOMAIN sentence_words : sentence_words[i] > 5})

Called(call) == \E i \in DOMAIN trace : trace[i] = call

\* The run has got its transcript and gone on to the summary.
PastAcquisition ==
    p_pc \in {"summarize", "summary", "display", "cleanup_mp3", "cleanup_srt",
              "cleanup_txt", "completed", "done"}
       \/ Called("generate_summary")

\* C12: the audio is downloaded and transcribed if and only if the force flag
\* is set or the subtitle fetch gave no file: with the force flag no subtitle
\* fetch is made; with a subtitle file the run goes to the summary of the
\* subtitle text with no audio download and no ASR call; a subtitle fetch
\* that returns without a file does not fail the run, which downloads the
\* audio next.
C12_AudioIffNoSubtitles ==
    /\ force_transcribe => (~Called("download_subtitles") /\ srt_path = None)
    /\ Called("download_audio") =>
          /\ srt_path = None
          /\ force_transcribe \/ Called("download_subtitles")
    /\ srt_path # None =>
          /\ ~Called("download_audio")
          /\ asr_calls = <<>>
          /\ t_pc = "idle"
          /\ mp3_path = None
    /\ PastAcquisition =>
          /\ Called("download_audio") <=> (force_transcribe \/ srt_path = None)
          /\ (asr_calls # <<>>) <=> (force_transcribe \/ srt_path = None)
          /\ srt_path # None => txt_path = Some(SubtitleTxtFile)
          /\ srt_path = None => txt_path = Some(TxtFile)
    /\ (/\ trace # <<>>
        /\ trace[Len(trace)] = "download_subtitles"
        /\ srt_path = None) => p_pc = "audio"

\* C12's case: the subtitle fetch returned without a file, the audio was
\* downloaded and transcribed, and the run completed.
C12_Witness ==
    /\ p_pc = "done"
    /\ ~force_transcribe
    /\ Called("download_subtitles")
    /\ Called("download_audio")
    /\ asr_calls # <<>>

\* The place of a call in the order of the stages of a run.
StageRank(call) ==
    CASE call = "check_dependencies"   -> 1
      [] call = "save_link_to_history" -> 2
      [] call = "download_subtitles"   -> 3
      [] call = "convert_srt_to_text"  -> 4
      [] call = "download_audio"       -> 5
      [] call = "transcribe_audio"     -> 6
      [] call = "generate_summary"     -> 7
      [] call = "summary_written"      -> 8
      [] call = "summary_raised"       -> 8
      [] call = "display_summary"      -> 9
      [] call = "os.remove"            -> 10
      [] call = "completed"            -> 11
      [] OTHER                         -> 12

\* The number of the paths of the run that are set.
PathsSet ==
    (IF mp3_path # None THEN 1 ELSE 0) + (IF srt_path # None THEN 1 ELSE 0)
       + (IF txt_path # None THEN 1 ELSE 0)

\* C13: a run visits its stages in the order Init, AcquireTranscript,
\* Summarize, Format (optional), Cleanup, Done: its calls come in this order,
\* the summary starts only with the transcript file written, the formatting
\* pass runs inside the summary, cleanup starts only with the summary
\* written, Done comes only after the removal of every intermediate file, and
\* a failed run has made no call after the one that failed and has none left
\* to make.
C13_StagesInOrder ==
    /\ \A i \in 1..(Len(trace) - 1) :
          /\ StageRank(trace[i]) <= StageRank(trace[i + 1])
          /\ StageRank(trace[i]) = StageRank(trace[i + 1]) => trace[i] = "os.remove"
          /\ trace[i] # "error"
    /\ t_pc \notin {"idle", "done", "raised"} => p_pc = "transcribe"
    /\ s_pc \notin {"idle", "written", "raised"} => p_pc = "summary"
    /\ s_pc # "idle" =>
          /\ txt_path # None
          /\ t_pc \in {"idle", "done"}
    /\ p_pc = "summary" => txt_path[1] \in files
    /\ unformatted # None => Called("generate_summary")
    /\ s_pc \in {"format", "save"} => (md_file = None /\ ~Called("os.remove"))
    /\ (Called("os.remove") \/ p_pc \in {"cleanup_mp3", "cleanup_srt", "cleanup_txt"}) =>
          /\ s_pc = "written"
          /\ md_file # None
          /\ md_path # None
    /\ p_pc = "done" =>
          /\ trace[Len(trace)] = "completed"
          /\ Cardinality({i \in DOMAIN trace : trace[i] = "os.remove"}) = PathsSet
          /\ Called("summary_written")
    /\ Called("error") <=> p_pc = "failed"
    /\ p_pc = "failed" =>
          /\ trace[Len(trace)] = "error"
          /\ t_pc \in {"idle", "done", "raised"}
          /\ s_pc \in {"idle", "written", "raised"}
          /\ ~ENABLED PNext

\* C13's case: a GUI run on the subtitle path went through every stage, the
\* formatting pass included, and is done.
C13_Witness ==
    /\ p_pc = "done"
    /\ frontend = "gui"
    /\ srt_path # None
    /\ unformatted # None
    /\ format_outcome = "ok_text"
    /\ trace = <<"check_dependencies", "save_link_to_history",
                 "download_subtitles", "convert_srt_to_text",
                 "generate_summary", "summary_written", "display_summary",
                 "os.remove", "os.remove", "completed">>

\* C14: with the remote-API (DeepSeek) strategy selected and no API key
\* configured the run fails before any work begins: before any subtitle or
\* audio download, any transcription and any network call.
C14_FailsBeforeAnyWork ==
    (model = "deepseek" /\ ~deepseek_api_key) =>
       /\ ~Called("save_link_to_history")
       /\ ~Called("download_subtitles")
       /\ ~Called("download_audio")
       /\ t_pc = "idle"
       /\ asr_calls = <<>>
       /\ files = {}

\* C15: with the ASR backend or the audio-conversion tool missing the run
\* fails before any processing starts: check_dependencies is its only call, no
\* history entry is appended, nothing is downloaded, no audio is converted,
\* no ASR call is made and no transcript file is written.
C15_MissingDependencyFailsFirst ==
    (~ffmpeg \/ ~nemo_asr) =>
       /\ p_pc \in {"start", "failed"}
       /\ p_pc = "failed" => trace = <<"check_dependencies", "error">>
       /\ link_history = <<>>
       /\ ~Called("download_subtitles")
       /\ ~Called("download_audio")
       /\ files = {}
       /\ t_pc = "idle"
       /\ asr_calls = <<>>
       /\ txt_path = None

\* C15's case: ffmpeg is there, the ASR toolkit is not, and the run failed.
C15_Witness ==
    /\ p_pc = "failed"
    /\ ffmpeg
    /\ ~nemo_asr
    /\ exit_status = Some(1)

\* The one request of a summary that is not chunked failed.
WholeRequestFailed ==
    /\ strategy \in {"deepseek", "ollama"}
    /\ ~ChunkingOn(summary_chunk_size)
    /\ requests_log # <<>>
    /\ requests_log[1].outcome \in {"transport", "http"}

\* The single pass of the backend gave no output.
SinglePassNoOutput == windows = <<>> /\ outcomes = <<"none">>

C17_CleanupFailureNotFatal ==
    /\ \A i \in DOMAIN trace :
          trace[i] = "os.remove" => (i = Len(trace) \/ trace[i + 1] # "error")
    /\ (frontend = "cli" /\ Called("summary_written")) => exit_status # Some(1)

\* C18: when a run is Done the summary file exists and no intermediate file
\* of the run exists any more (downloaded audio, converted WAV, window files,
\* subtitle file, transcript text file), on the subtitle and the audio path.
C18_DoneLeavesOnlySummary ==
    p_pc = "done" =>
       /\ md_file # None
       /\ md_path # None
       /\ files = {}
       /\ srt_path # None \/ mp3_path # None

\* C18's case: a run on the audio path, transcribed in windows after a
\* subtitle fetch without a file, is done.
C18_Witness ==
    /\ p_pc = "done"
    /\ Called("download_subtitles")
    /\ mp3_path # None
    /\ Len(windows) >= 2
    /\ md_file # None

\* The run has saved its link: save_link_to_history returned.
LinkSaved ==
    /\ Len(trace) >= 2
    /\ trace[2] = "save_link_to_history"
    /\ Len(trace) >= 3 => trace[3] # "error"

\* C19 as stated: a HistoryEntry for the URL of the run is appended at the
\* start of every run, before the transcript acquisition begins, and is still
\* in the persisted history when the run ends, whatever the later stages do.
C19_EntryInEveryRun ==
    p_pc \notin {"start", "history"} =>
       /\ Len(link_history) = 1
       /\ link_history[1].url \in Urls

\* C19 as amended: every run whose dependency check passes and whose
\* configuration file can be written appends a HistoryEntry for its URL
\* before the transcript acquisition begins, and the entry is still in the
\* persisted history when the run ends, whether the later stages succeed or
\* fail; a run that fails before that appends nothing.
C19_EntryOncePastDependencies ==
    /\ LinkSaved =>
          /\ Len(link_history) = 1
          /\ link_history[1].url \in Urls
    /\ (Called("download_subtitles") \/ Called("download_audio")
           \/ p_pc \in {"subtitles", "audio"} \/ PastAcquisition) => LinkSaved
    /\ (p_pc \notin {"start", "history"} /\ ~LinkSaved) =>
          /\ p_pc = "failed"
          /\ link_history = <<>>

\* C19's case: a run saved its link, downloaded the audio, and failed in the
\* summary; the entry is in the history.
C19_Witness ==
    /\ p_pc = "failed"
    /\ LinkSaved
    /\ Called("download_audio")
    /\ Called("summary_raised")
    /\ Len(link_history) = 1

(***************************************************************************)
(* Properties of the link history (SpecHistory).                            *)
(***************************************************************************)

\* The ids of the entries of a history, in list order.
Ids(history) == [i \in DOMAIN history |-> history[i].id]

\* C20: after any sequence of save_link_to_history and
\* remove_link_from_history calls from an empty history the persisted list
\* has at most 50 entries, most recent first; a save puts the new entry first
\* and, on a full list, evicts exactly the oldest entry; a remove takes out
\* the entry of that id only; without removes the list holds exactly the
\* min(n, 50) most recent of the n entries saved.
C20_HistoryBounded ==
    /\ Len(link_history) <= HistoryLimit
    /\ \A i \in 1..(Len(link_history) - 1) :
          link_history[i].id > link_history[i + 1].id
    /\ h_last.op = "save" =>
          /\ link_history[1].id = h_last.arg
          /\ Len(h_before) < HistoryLimit => Tail(link_history) = h_before
          /\ Len(h_before) = HistoryLimit =>
                /\ Len(link_history) = HistoryLimit
                /\ Tail(link_history) = SubSeq(h_before, 1, HistoryLimit - 1)
    /\ h_last.op = "save_failed" => link_history = h_before
    /\ h_last.op = "remove" =>
          /\ \A i \in DOMAIN link_history : link_history[i].id # h_last.arg
          /\ Len(link_history) >= Len(h_before) - 1
          /\ \A i \in DOMAIN h_before :
                h_before[i].id # h_last.arg =>
                   \E j \in DOMAIN link_history : link_history[j] = h_before[i]
    /\ removes = 0 =>
          Ids(link_history) =
             [i \in 1..Min(next_id - 1, HistoryLimit) |-> next_id - i]

\* C20's case: more than 50 entries were saved with no remove, and the list
\* holds the 50 most recent ones.
C20_Witness ==
    /\ h_pc = "ready"
    /\ next_id - 1 > HistoryLimit
    /\ removes = 0
    /\ Len(link_history) = HistoryLimit
    /\ link_history[HistoryLimit].id = next_id - HistoryLimit

(***************************************************************************)
(* Termination and the transient files of the transcription                 *)
(* (SpecTranscribe and, with fairness, SpecTranscribeFair).                 *)
(***************************************************************************)

\* transcribe_audio has returned or raised.
TranscribeFinished == t_pc \in {"done", "raised"}

\* The start offset strictly increases from each window to the next, no
\* window before the last ends at the end of the asset, and the loop is left
\* with the last window ending there.
WindowsAdvance ==
    /\ \A i \in 1..(Len(windows) - 1) :
          /\ windows[i + 1][1] > windows[i][1]
          /\ windows[i][2] < audio_len
    /\ (windows # <<>> /\ t_pc \in {"join", "write", "cleanup", "done"}) =>
          windows[Len(windows)][2] = audio_len
    /\ t_pc = "chunk_write" => start_sample < audio_len

\* C25: for every asset length D > 0 and every 0 <= overlap_duration <
\* chunk_duration the windowing loop terminates after finitely many windows:
\* the start offset strictly increases from window to window, the loop is
\* left in the iteration whose window ends at D, and transcribe_audio
\* eventually returns or raises.
C25_LoopTerminates == []WindowsAdvance /\ <>TranscribeFinished

\* C25's case: an asset was transcribed in at least four windows with an
\* overlap, and the transcription has returned.
C25_Witness ==
    /\ t_pc = "done"
    /\ overlap_duration > 0
    /\ Len(windows) >= 4


\* The window files that exist.
ChunkFiles == {f \in files : f.kind = "chunk"}

\* C27: during chunked transcription at most one window file exists at any
\* point, and only while its window is with the backend; the file of a window
\* is gone once the window has been processed, whether the backend returned a
\* text, returned nothing or raised, and none exists once
\* transcribe_audio_chunked has returned.
C27_ChunkFileReleased ==
    /\ Cardinality(ChunkFiles) <= 1
    /\ t_pc = "chunk_asr" => ChunkFiles = {ChunkFile(chunk_num)}
    /\ t_pc # "chunk_asr" => ChunkFiles = {}
    /\ \A i \in 1..Len(asr_calls) :
          asr_calls[i] # WavFile /\ t_pc # "chunk_asr" => asr_calls[i] \notin files

\* C27's case: the chunked pass has returned after three windows, one of which
\* raised and one of which returned nothing.
C27_Witness ==
    /\ t_pc = "write"
    /\ Len(windows) >= 3
    /\ \E i, j \in 1..Len(outcomes) : outcomes[i] = "raise" /\ outcomes[j] = "none"
    /\ ChunkFiles = {}


\* C30: whenever transcribe_audio has finished, by returning the transcript
\* path or by raising, the temporary WAV file it created no longer exists.
C30_WavRemovedOnEveryExit == TranscribeFinished => WavFile \notin files


(***************************************************************************)
(* Properties of the error reports of a run (SpecPipeline).                 *)
(***************************************************************************)

\* C22: a failed run has reported exactly one error to the user; the CLI has
\* exited with a non-zero status and the GUI process has not exited.
C22_OneErrorPerFailedRun ==
    p_pc = "failed" =>
        /\ error_reports = 1
        /\ frontend = "cli" => (exit_status # None /\ exit_status # Some(0))
        /\ frontend = "gui" => exit_status = None

(***************************************************************************)
(* Properties of the windowing parameters of a run (SpecPipeline).          *)
(***************************************************************************)

\* C26: in every run the windowing loop is entered only with
\* overlap_duration < chunk_duration, and every window it writes satisfies
\* 0 <= start < end <= asset length.
C26_LoopEnteredWithValidOverlap ==
    /\ t_pc \in {"chunk_write", "chunk_asr"} => overlap_duration < chunk_duration
    /\ \A i \in 1..Len(windows) :
          /\ 0 <= windows[i][1]
          /\ windows[i][1] < windows[i][2]
          /\ windows[i][2] <= audio_len


(***************************************************************************)
(* Properties of the configuration round trip (SpecConfig).                 *)
(***************************************************************************)

\* load_config has returned after a save_config(k_config) that returned.
LoadedAfterSave == k_pc = "loaded" /\ k_saved

\* C21 as stated: load_config after save_config(M) returns every key of M
\* with the value saved, and every recognized key absent from M, llm_model
\* and llm_prompt included, with a default value.
C21_AllRecognizedKeysPopulated ==
    LoadedAfterSave =>
        /\ \A k \in DOMAIN k_config :
              k \in DOMAIN k_loaded[1] /\ k_loaded[1][k] = k_config[k]
        /\ RecognizedKeys \ DOMAIN k_config \subseteq DOMAIN k_loaded[1]

\* C21: load_config after save_config(M) returns a mapping whose keys are
\* the keys of M and the eight keys of default_config; every key of M,
\* recognized or not, has the value saved, and every key of default_config
\* absent from M has its default value.  llm_model and llm_prompt are
\* present only if M holds them.
C21_RoundTripWithDefaults ==
    LoadedAfterSave =>
        /\ DOMAIN k_loaded[1] = DOMAIN k_config \cup DefaultKeys
        /\ \A k \in DOMAIN k_config : k_loaded[1][k] = k_config[k]
        /\ \A k \in DefaultKeys \ DOMAIN k_config :
              k_loaded[1][k] = default_config[k]

\* C21's case: a mapping with an unknown key and an overridden default was
\* saved over an earlier file and loaded again.
C21_Witness ==
    /\ LoadedAfterSave
    /\ DOMAIN k_config = {"theme", "overlap_duration"}
    /\ k_config["overlap_duration"] = PyInt(60)
    /\ k_loaded[1]["theme"] = PyStr("x")
    /\ k_loaded[1]["overlap_duration"] = PyInt(60)
    /\ k_loaded[1]["chunk_duration"] = PyInt(300)
    /\ "llm_model" \notin DOMAIN k_loaded[1]


(***************************************************************************)
(* Properties of the writers of the configuration file (SpecConfigOps).     *)
(***************************************************************************)

\* C28: no operation that writes the configuration file discards what an
\* earlier operation persisted: every key the operation is not to write has
\* the value it had before the operation.
C28_WritesKeepOtherKeys ==
    k_op.name # "none" =>
        \A k \in DOMAIN k_before[1] \ k_op.writes :
            /\ k \in DOMAIN load_config(config_file)
            /\ load_config(config_file)[k] = k_before[1][k]


(***************************************************************************)
(* Properties of two concurrent save_link_to_history calls (SpecRace).      *)
(***************************************************************************)

\* Both calls have returned without an error.
BothSaved == \A p \in Callers : r_pc[p] = "done"

\* The position of an event in r_order, 0 if it has not happened.
EventAt(p, what) ==
    IF \E i \in 1..Len(r_order) : r_order[i] = <<p, what>>
    THEN CHOOSE i \in 1..Len(r_order) : r_order[i] = <<p, what>>
    ELSE 0

\* The call that saved last, and the other one.
LastSaver == r_order[Len(r_order)][1]
FirstSaver == CHOOSE p \in Callers : p # LastSaver

\* The entries persisted.
PersistedEntries ==
    {HistoryOf(load_config(config_file))[i] :
        i \in DOMAIN HistoryOf(load_config(config_file))}

\* C29: when both calls have returned without an error, the history persisted
\* is the one the last saver loaded with its entry on top; the entry of the
\* first saver is in it exactly if the last saver loaded after the first one
\* saved.  Loads and saves that interleave otherwise lose the first saver's
\* entry: a lost update.
C29_LastSaverWins ==
    BothSaved =>
        /\ HistoryOf(load_config(config_file)) =
              <<r_entry[LastSaver]>> \o HistoryOf(r_config[LastSaver][1])
        /\ r_entry[FirstSaver] \in PersistedEntries
              <=> EventAt(LastSaver, "load") > EventAt(FirstSaver, "save")

\* C29's case: both calls loaded before either saved, both returned without
\* an error, and one of the two entries is persisted, next to the entry the
\* file held before.
C29_Witness ==
    /\ BothSaved
    /\ r_order = <<<<1, "load">>, <<2, "load">>, <<1, "save">>, <<2, "save">>>>
    /\ HistoryOf(k_before[1]) # <<>>
    /\ r_entry[2] \in PersistedEntries
    /\ r_entry[1] \notin PersistedEntries
    /\ Len(HistoryOf(load_config(config_file))) = 2


(***************************************************************************)
(* Properties of the GUI threads (SpecGui).                                 *)
(***************************************************************************)

\* C23: at most one pipeline worker thread is running at any time, whatever
\* the user does.
C23_OneWorkerAtATime == Cardinality(Running) <= 1

\* C24: every widget access made for a run is made on the UI thread.
C24_WidgetsOnUiThreadOnly == \A access \in widget_log : access[1] = "ui"

=============================================================================
